---- MODULE Spec2Model ----
(***************************************************************************)
(* Model of the biometric analysis platform: the six-stage signal cleaner  *)
(* (DataCleaner.py), the timestamp synchronisation and window extraction   *)
(* (analysis_utils.py), the analysis methods and their statistics          *)
(* (analysis_methods.py) and the metric loop of run_analysis               *)
(* (analysis_runner.py).                                                   *)
(*                                                                         *)
(* Numbers.  A metric value is a float64 in the program.  Here a finite    *)
(* value is an integer number of ticks, Scale ticks to the unit, so that   *)
(* every linear interpolation the model performs is exact; NaN, +inf and   *)
(* -inf are three reserved integers outside the finite range, and every    *)
(* comparison and arithmetic operator below treats them as IEEE-754 does.  *)
(* Timestamps are whole seconds.                                           *)
(***************************************************************************)
EXTENDS Integers, Sequences, FiniteSets, TLC

VARIABLES
    metric_type,   \* BiometricDataCleaner.metric_type
    thresholds,    \* BiometricDataCleaner.thresholds
    stages,        \* the `stages` argument of clean: None or an ordered dict
    data,          \* the caller's DataFrame passed to clean
    df,            \* the DataFrame clean returns
    stage_log,     \* per executed stage: rows before / after (the printed counts)
    raised,        \* exception that escaped clean, "none" if it returned
    pc,            \* "ready" before the call, "done" after it
    ev_cols,       \* timestamp columns of the event-marker file
    ev_raw,        \* rows of the event-marker file as loaded
    ev,            \* event log returned by prepare_event_markers_timestamps
    sensor,        \* rows of the sensor (EmotiBit) file
    offset,        \* value returned by find_timestamp_offset
    tolerance,     \* tolerance passed to match_event_markers_to_biometric
    matches,       \* list returned by match_event_markers_to_biometric
    warnings,      \* events reported as unmatched (the printed warnings)
    sync_error,    \* exception that ended the synchronisation, "none" if none
    sync_pc,       \* "loaded", "prepared", "aligned", "matched", or
                   \* "prepare_raised", "offset_raised", "match_raised"
    win_log,       \* event_markers_df passed to extract_window_data
    win_has_condition, \* whether event_markers_df has a `condition` column
    win_sensor,    \* emotibit_df passed to extract_window_data
    win_offset,    \* offset passed to extract_window_data
    window_config, \* window_config passed to extract_window_data
    win_trace,     \* per loop iteration: marker_time, end_time, window_data
    win_result,    \* what extract_window_data returned or raised
    win_pc,        \* "ready" before the call, "done" after it
    method_window, \* the caller's frame passed to apply_analysis_method
    method_name,   \* the method name
    method_out,    \* what apply_analysis_method returned or raised
    method_stats,  \* the dict returned by calculate_statistics
    method_pc,     \* "ready", "applied" or "apply_raised", "done"
    run_mode,      \* "single", or batch mode with analysis_type "inter" / "intra"
    run_metrics,   \* selected_metrics
    run_subjects,  \* selected_subjects (the one subject of the folder in single mode)
    run_event,     \* per subject: state of its event-marker file
    run_file,      \* per (subject, metric): state of its metric file
    run_markers,   \* df_markers: "None", "frame" (single mode) or "True" (batch)
    run_results,   \* results['analysis']: the (metric, subject) entries present
    run_errors,    \* results['errors']
    run_i,         \* position of the metric loop in selected_metrics
    run_j,         \* position of the subject loop in selected_subjects
    run_group,     \* group_data_raw of analyze_metric_multi_subject: subjects loaded
    run_pc,        \* "start", "hrv", "hrv_try", "metrics", "done"
    run_hrv,       \* the argument analyze_hrv
    run_ppg,       \* state of the PPG (PI) file that analyze_hrv_from_ppg reads
    run_warnings,  \* results['warnings']
    run_hrv_results, \* results['hrv']: "empty" or "indices"
    run_plots,     \* results['plots']: the plot groups added
    run_hrv_calls, \* calls of analyze_hrv_from_ppg made so far
    \* ---- analyze_metric, up to the offset ----
    am_metric,     \* the argument metric
    am_file,       \* rows of the metric file: t is LocalTimestamp, v the last column
    am_markers,    \* df_markers: normalised event rows
    am_cleaning_enabled, \* the argument cleaning_enabled
    am_cleaning_stages,  \* the argument cleaning_stages
    am_df_metric,  \* df_metric
    am_offset,     \* offset
    am_pc          \* "call", "offset", "none" (returned None, []), "raised"

cleanVars == <<metric_type, thresholds, stages, data, df, stage_log, raised, pc>>

syncVars ==
    <<ev_cols, ev_raw, ev, sensor, offset, tolerance, matches, warnings, sync_error, sync_pc>>

winVars ==
    <<win_log, win_has_condition, win_sensor, win_offset, window_config,
      win_trace, win_result, win_pc>>

methodVars == <<method_window, method_name, method_out, method_stats, method_pc>>

hrvVars == <<run_hrv, run_ppg, run_warnings, run_hrv_results, run_plots, run_hrv_calls>>

runVars ==
    <<run_mode, run_metrics, run_subjects, run_event, run_file, run_markers,
      run_results, run_errors, run_i, run_j, run_group, run_pc, hrvVars>>

amVars ==
    <<am_metric, am_file, am_markers, am_cleaning_enabled, am_cleaning_stages,
      am_df_metric, am_offset, am_pc>>

restVars == <<winVars, methodVars, runVars, amVars>>

vars == <<cleanVars, syncVars, restVars>>

WindowIdle ==
    /\ win_log = <<>>
    /\ win_has_condition = FALSE
    /\ win_sensor = <<>>
    /\ win_offset = 0
    /\ window_config = <<>>
    /\ win_trace = <<>>
    /\ win_result = <<>>
    /\ win_pc = "idle"

MethodIdle ==
    /\ method_window = <<>>
    /\ method_name = "raw"
    /\ method_out = <<>>
    /\ method_stats = <<>>
    /\ method_pc = "idle"

RunIdle ==
    /\ run_mode = "single"
    /\ run_metrics = <<>>
    /\ run_subjects = <<>>
    /\ run_event = <<>>
    /\ run_file = <<>>
    /\ run_markers = "None"
    /\ run_results = {}
    /\ run_errors = <<>>
    /\ run_i = 1
    /\ run_j = 1
    /\ run_group = {}
    /\ run_pc = "idle"
    /\ run_hrv = FALSE
    /\ run_ppg = "ok"
    /\ run_warnings = <<>>
    /\ run_hrv_results = "empty"
    /\ run_plots = <<>>
    /\ run_hrv_calls = 0

MetricIdle ==
    /\ am_metric = "HR"
    /\ am_file = <<>>
    /\ am_markers = <<>>
    /\ am_cleaning_enabled = FALSE
    /\ am_cleaning_stages = [is_none |-> TRUE, items |-> <<>>]
    /\ am_df_metric = <<>>
    /\ am_offset = 0
    /\ am_pc = "idle"

RestIdle == WindowIdle /\ MethodIdle /\ RunIdle /\ MetricIdle

(***************************************************************************)
(* float64 values                                                          *)
(***************************************************************************)
Scale == 8 * 9 * 5 * 7 * 11

NaN == 2 * (10 ^ 9)

PInf == 10 ^ 9

NInf == 0 - (10 ^ 9)

U(x) == x * Scale

IsNaN(x) == x = NaN

IsInf(x) == x = PInf \/ x = NInf

IsFinite(x) == ~IsNaN(x) /\ ~IsInf(x)

FNeg(x) == IF IsNaN(x) THEN NaN ELSE 0 - x

FAbs(x) == IF IsNaN(x) THEN NaN ELSE IF x < 0 THEN 0 - x ELSE x

FAdd(a, b) ==
    IF IsNaN(a) \/ IsNaN(b) THEN NaN
    ELSE IF IsInf(a) THEN (IF IsInf(b) /\ b # a THEN NaN ELSE a)
    ELSE IF IsInf(b) THEN b
    ELSE a + b

FSub(a, b) == FAdd(a, FNeg(b))

\* comparisons: anything compared with NaN is False
FLe(a, b) == ~IsNaN(a) /\ ~IsNaN(b) /\ a <= b

FGe(a, b) == FLe(b, a)

FLt(a, b) == ~IsNaN(a) /\ ~IsNaN(b) /\ a < b

(***************************************************************************)
(* small sequence helpers                                                  *)
(***************************************************************************)
Vals(rows) == [i \in 1..Len(rows) |-> rows[i].v]

SetVals(rows, vs) == [i \in 1..Len(rows) |-> [t |-> rows[i].t, v |-> vs[i]]]

CountNaN(rows) == Cardinality({i \in 1..Len(rows) : IsNaN(rows[i].v)})

\* rows of `rows` at the positions where keep[i] holds, in order
RECURSIVE Mask(_, _)
Mask(rows, keep) ==
    IF rows = <<>> THEN <<>>
    ELSE LET rest == Mask(Tail(rows), Tail(keep))
         IN IF Head(keep) THEN <<Head(rows)>> \o rest ELSE rest

\* ascending sort of a sequence of numbers (no NaN among them)
RECURSIVE InsertNum(_, _)
InsertNum(x, s) ==
    IF s = <<>> THEN <<x>>
    ELSE IF x < Head(s) THEN <<x>> \o s
    ELSE <<Head(s)>> \o InsertNum(x, Tail(s))

RECURSIVE SortNums(_)
SortNums(s) ==
    IF s = <<>> THEN <<>>
    ELSE InsertNum(s[Len(s)], SortNums(SubSeq(s, 1, Len(s) - 1)))

\* rows in ascending timestamp order, rows of equal timestamp keeping their order
RECURSIVE InsertRow(_, _)
InsertRow(r, s) ==
    IF s = <<>> THEN <<r>>
    ELSE IF r.t < Head(s).t THEN <<r>> \o s
    ELSE <<Head(s)>> \o InsertRow(r, Tail(s))

RECURSIVE SortValues(_)
SortValues(rows) ==
    IF rows = <<>> THEN <<>>
    ELSE InsertRow(rows[Len(rows)], SortValues(SubSeq(rows, 1, Len(rows) - 1)))

\* twice the median of an ascending sequence of non-NaN numbers
\* (mean of the two middle elements when the count is even)
Median2(s) ==
    LET n == Len(s)
    IN IF n = 0 THEN NaN
       ELSE IF n % 2 = 1 THEN FAdd(s[(n + 1) \div 2], s[(n + 1) \div 2])
       ELSE FAdd(s[n \div 2], s[n \div 2 + 1])

RECURSIVE SumSeq(_)
SumSeq(s) == IF s = <<>> THEN 0 ELSE Head(s) + SumSeq(Tail(s))

(***************************************************************************)
(* BiometricDataCleaner.__init__ / _get_thresholds                         *)
(***************************************************************************)
Some(x) == [set |-> TRUE, val |-> x]

None == [set |-> FALSE, val |-> 0]

Ranges ==
    [HR      |-> [min |-> Some(U(30)), max |-> Some(U(220)), max_change |-> Some(U(30))],
     EDA     |-> [min |-> Some(U(0)),  max |-> Some(U(100)), max_change |-> Some(U(5))],
     TEMP    |-> [min |-> Some(U(30)), max |-> Some(U(42)),  max_change |-> Some(U(2))],
     PI      |-> [min |-> Some(U(0)),  max |-> None,         max_change |-> None],
     PR      |-> [min |-> Some(U(0)),  max |-> None,         max_change |-> None],
     PG      |-> [min |-> Some(U(0)),  max |-> None,         max_change |-> None],
     default |-> [min |-> None,        max |-> None,         max_change |-> None]]

GetThresholds(m) == IF m \in DOMAIN Ranges THEN Ranges[m] ELSE Ranges["default"]

(***************************************************************************)
(* Stage 1: _remove_invalid_values                                         *)
(***************************************************************************)
NotNaN(x) == ~IsNaN(x)

NonNegativeMetrics == {"EDA", "PI", "PR", "PG"}

\* DataFrame.dropna(subset=[metric_col])
DropNa(rows) == Mask(rows, [i \in 1..Len(rows) |-> ~IsNaN(rows[i].v)])

RemoveInvalidValues(rows, m) ==
    LET a == DropNa(rows)
        b == Mask(a, [i \in 1..Len(a) |-> IsFinite(a[i].v)])
    IN IF m \in NonNegativeMetrics
       THEN Mask(b, [i \in 1..Len(b) |-> FGe(b[i].v, 0)])
       ELSE b

(***************************************************************************)
(* Stage 2: _remove_physiological_outliers                                 *)
(***************************************************************************)
AboveMin(rows, th) ==
    IF th.min.set
    THEN Mask(rows, [i \in 1..Len(rows) |-> FGe(rows[i].v, th.min.val)])
    ELSE rows

BelowMax(rows, th) ==
    IF th.max.set
    THEN Mask(rows, [i \in 1..Len(rows) |-> FLe(rows[i].v, th.max.val)])
    ELSE rows

\* a variant that forgets the upper bound
RemovePhysiologicalOutliersMinOnly(rows, th) == AboveMin(rows, th)

RemovePhysiologicalOutliers(rows, th) == BelowMax(AboveMin(rows, th), th)

(***************************************************************************)
(* Stage 3: _remove_statistical_outliers (threshold = 3.5)                 *)
(* Computed in whole units: the values that reach stage 3 are the caller's *)
(* samples, the in-place fills of stages 5 and 6 come after it.  Medians   *)
(* are carried doubled so that they stay integers:                         *)
(*   median2 = 2*median,  dev2[i] = 2*|x[i] - median|,  mad4 = 4*MAD.      *)
(***************************************************************************)
ZThreshold2 == 7

MadFactor == 6745

MadFactorDen == 10000

ToUnits(x) == IF IsFinite(x) THEN x \div Scale ELSE x

\* Series.std(): sample standard deviation; positive exactly when every value
\* is finite, there are at least two of them and they are not all equal.
\* SumSqDev = n*sum(x^2) - sum(x)^2 = n*(n-1)*std^2
SumSqDev(x) ==
    Len(x) * SumSeq([i \in 1..Len(x) |-> x[i] * x[i]]) - SumSeq(x) * SumSeq(x)

\* a variant without the fallback: the standard deviation never counts as positive
StdNeverPositive(x) == FALSE

StdPositive(x) ==
    /\ Len(x) >= 2
    /\ \A i \in 1..Len(x) : IsFinite(x[i])
    /\ SumSqDev(x) > 0

RemoveStatisticalOutliers(rows) ==
    LET x == [i \in 1..Len(rows) |-> ToUnits(rows[i].v)]
        n == Len(x)
        median2 == Median2(SortNums(SelectSeq(x, NotNaN)))
        dev2 == [i \in 1..n |-> FAbs(FSub(FAdd(x[i], x[i]), median2))]
        mad4 == IF \E i \in 1..n : IsNaN(dev2[i])
                THEN NaN
                ELSE Median2(SortNums(dev2))
        keepStd == [i \in 1..n |->
            dev2[i] * dev2[i] * n * (n - 1) < ZThreshold2 * ZThreshold2 * SumSqDev(x)]
        keepMad == [i \in 1..n |->
            IF IsNaN(mad4) THEN FALSE
            ELSE IF mad4 = PInf THEN IsFinite(dev2[i])
            ELSE IsFinite(dev2[i])
                 /\ 4 * MadFactor * dev2[i] < ZThreshold2 * MadFactorDen * mad4]
    IN IF mad4 = 0
       THEN (IF StdPositive(x) THEN Mask(rows, keepStd) ELSE rows)
       ELSE Mask(rows, keepMad)

(***************************************************************************)
(* Stage 4: _remove_sudden_changes                                         *)
(***************************************************************************)
RemoveSuddenChanges(rows, th) ==
    LET s == SortValues(rows)
        keep == [i \in 1..Len(s) |->
            IF i = 1 THEN TRUE
            ELSE LET time_diff == s[i].t - s[i - 1].t
                     value_diff == FAbs(FSub(s[i].v, s[i - 1].v))
                 IN \/ time_diff = 0
                    \/ IsNaN(value_diff)
                    \/ /\ IsFinite(value_diff)
                       /\ value_diff <= th.max_change.val * time_diff]
    IN Mask(s, keep)

(***************************************************************************)
(* Stage 5: _interpolate_missing                                           *)
(***************************************************************************)
InterpolateLimit == 10

FillLimit == 5

\* nearest position before / after i holding a value, 0 when there is none
PrevValid(v, i) ==
    LET c == {j \in 1..(i - 1) : ~IsNaN(v[j])}
    IN IF c = {} THEN 0 ELSE CHOOSE j \in c : \A k \in c : k <= j

NextValid(v, i) ==
    LET c == {j \in (i + 1)..Len(v) : ~IsNaN(v[j])}
    IN IF c = {} THEN 0 ELSE CHOOSE j \in c : \A k \in c : j <= k

\* numpy.interp between a (k positions back) and b, the gap being g positions
Lerp(a, b, k, g) ==
    IF IsFinite(a) /\ IsFinite(b) THEN a + ((b - a) * k) \div g
    ELSE IF IsInf(a) /\ IsInf(b) THEN (IF a = b THEN a ELSE NaN)
    ELSE IF IsInf(a) THEN a
    ELSE b

\* Series.interpolate(method='linear', limit=10): forward direction, so a
\* leading run is left alone and a trailing run repeats the last value
Interpolate(v) ==
    [i \in 1..Len(v) |->
        IF ~IsNaN(v[i]) THEN v[i]
        ELSE LET p == PrevValid(v, i)
                 q == NextValid(v, i)
             IN IF p = 0 \/ i - p > InterpolateLimit THEN NaN
                ELSE IF q = 0 THEN v[p]
                ELSE Lerp(v[p], v[q], i - p, q - p)]

\* Series.fillna(method='bfill', limit=5)
BFill(v) ==
    [i \in 1..Len(v) |->
        IF ~IsNaN(v[i]) THEN v[i]
        ELSE LET q == NextValid(v, i)
             IN IF q # 0 /\ q - i <= FillLimit THEN v[q] ELSE NaN]

\* Series.fillna(method='ffill', limit=5)
FFill(v) ==
    [i \in 1..Len(v) |->
        IF ~IsNaN(v[i]) THEN v[i]
        ELSE LET p == PrevValid(v, i)
             IN IF p # 0 /\ i - p <= FillLimit THEN v[p] ELSE NaN]

\* the column after the three in-place assignments (before the final dropna)
FilledColumn(rows) == SetVals(rows, FFill(BFill(Interpolate(Vals(rows)))))

\* a variant that appends the filled rows instead of filling in place
InterpolateMissingAppend(rows) ==
    IF CountNaN(rows) > 0 THEN DropNa(rows) \o DropNa(FilledColumn(rows)) ELSE rows

InterpolateMissing(rows) ==
    IF CountNaN(rows) > 0 THEN DropNa(FilledColumn(rows)) ELSE rows

(***************************************************************************)
(* Stage 6: _apply_smoothing (scipy.signal.medfilt, kernel 5, zero padded) *)
(***************************************************************************)
SmoothWindow == 5

Padded(v, i) == IF i >= 1 /\ i <= Len(v) THEN v[i] ELSE 0

MedFilt(v) ==
    LET h == SmoothWindow \div 2
    IN [i \in 1..Len(v) |->
          SortNums([k \in 1..SmoothWindow |-> Padded(v, i - h - 1 + k)])[h + 1]]

ApplySmoothing(rows) ==
    IF Len(rows) > SmoothWindow THEN SetVals(rows, MedFilt(Vals(rows))) ELSE rows

(***************************************************************************)
(* clean: configuration lookup                                             *)
(***************************************************************************)
\* a dict is the sequence of its items in insertion order; keys are distinct
Item(key, val) == [k |-> key, v |-> val]

NoStages == [is_none |-> TRUE, items |-> <<>>]

StagesDict(items) == [is_none |-> FALSE, items |-> items]

FlagNames ==
    << "remove_invalid", "remove_physiological_outliers", "remove_statistical_outliers",
       "remove_sudden_changes", "interpolate", "smooth" >>

DefaultStages ==
    << Item("remove_invalid", TRUE),
       Item("remove_physiological_outliers", TRUE),
       Item("remove_statistical_outliers", FALSE),
       Item("remove_sudden_changes", TRUE),
       Item("interpolate", TRUE),
       Item("smooth", FALSE) >>

\* `if stages is None: stages = {...}`
EffectiveStages(arg) == IF arg.is_none THEN DefaultStages ELSE arg.items

\* dict.get(key, default)
Get(d, key, dflt) ==
    IF \E i \in 1..Len(d) : d[i].k = key
    THEN d[CHOOSE i \in 1..Len(d) : d[i].k = key].v
    ELSE dflt

(***************************************************************************)
(* clean: the working frame.  `rows` is the content of df, `shared` tells  *)
(* whether df is the caller's own object, `caller` is the content of the   *)
(* caller's object, `log` the rows before/after each executed stage.       *)
(***************************************************************************)
\* a variant that keeps working on the caller's object
DataAlias(d) == [rows |-> d, shared |-> TRUE]

\* data.copy(): a new object with the same rows
DataCopy(d) == [rows |-> d, shared |-> FALSE]

\* df = <a filtered / sorted frame>: df now names a new object
Rebound(st, k, rows) ==
    [st EXCEPT !.rows = rows, !.shared = FALSE,
               !.log = Append(@, [stage |-> k, before |-> Len(st.rows), after |-> Len(rows)])]

\* df[metric_col] = ...: writes the object df names
Written(st, rows) ==
    [st EXCEPT !.rows = rows, !.caller = IF st.shared THEN rows ELSE @]

Logged(st, k, before) ==
    [st EXCEPT !.log = Append(@, [stage |-> k, before |-> before, after |-> Len(st.rows)])]

Stage1(st, cfg, m) ==
    IF Get(cfg, "remove_invalid", TRUE)
    THEN Rebound(st, 1, RemoveInvalidValues(st.rows, m))
    ELSE st

Stage2(st, cfg, th) ==
    IF Get(cfg, "remove_physiological_outliers", TRUE) /\ (th.min.set \/ th.max.set)
    THEN Rebound(st, 2, RemovePhysiologicalOutliers(st.rows, th))
    ELSE st

Stage3(st, cfg) ==
    IF Get(cfg, "remove_statistical_outliers", FALSE)
    THEN Rebound(st, 3, RemoveStatisticalOutliers(st.rows))
    ELSE st

Stage4(st, cfg, th) ==
    IF Get(cfg, "remove_sudden_changes", TRUE) /\ th.max_change.set
    THEN Rebound(st, 4, RemoveSuddenChanges(st.rows, th))
    ELSE st

Stage5(st, cfg) ==
    IF Get(cfg, "interpolate", TRUE)
    THEN IF CountNaN(st.rows) > 0
         THEN Rebound(Written(st, FilledColumn(st.rows)), 5, InterpolateMissing(st.rows))
         ELSE Logged([st EXCEPT !.rows = InterpolateMissing(st.rows)], 5, Len(st.rows))
    ELSE Rebound(st, 5, DropNa(st.rows))

Stage6(st, cfg) ==
    IF Get(cfg, "smooth", FALSE)
    THEN Logged(Written(st, ApplySmoothing(st.rows)), 6, Len(st.rows))
    ELSE st

RunStage(k, st, cfg, m, th) ==
    CASE k = 1 -> Stage1(st, cfg, m)
      [] k = 2 -> Stage2(st, cfg, th)
      [] k = 3 -> Stage3(st, cfg)
      [] k = 4 -> Stage4(st, cfg, th)
      [] k = 5 -> Stage5(st, cfg)
      [] k = 6 -> Stage6(st, cfg)

StageOf(key) == CHOOSE i \in 1..6 : FlagNames[i] = key

\* a variant that runs the stages in the order the configuration lists them
StageOrderFromConfig(cfg) == [i \in 1..Len(cfg) |-> StageOf(cfg[i].k)]

\* the order in which clean's body reaches the stage blocks
StageOrder(cfg) == <<1, 2, 3, 4, 5, 6>>

RECURSIVE RunStages(_, _, _, _, _)
RunStages(order, st, cfg, m, th) ==
    IF order = <<>> THEN st
    ELSE RunStages(Tail(order), RunStage(Head(order), st, cfg, m, th), cfg, m, th)

\* a variant without the guard: dividing by a zero original_count raises
RemovedPctUnguarded(original_count, final_count) ==
    IF original_count = 0
    THEN [err |-> "ZeroDivisionError", val |-> 0]
    ELSE [err |-> "none", val |-> ((original_count - final_count) * 100) \div original_count]

\* pct = (removed / original_count * 100) if original_count > 0 else 0
RemovedPct(original_count, final_count) ==
    IF original_count > 0
    THEN [err |-> "none", val |-> ((original_count - final_count) * 100) \div original_count]
    ELSE [err |-> "none", val |-> 0]

CleanRun(d, arg, m, th) ==
    LET cfg == EffectiveStages(arg)
        c == DataCopy(d)
        st0 == [rows |-> c.rows, shared |-> c.shared, caller |-> d, log |-> <<>>]
        fin == RunStages(StageOrder(cfg), st0, cfg, m, th)
        pct == RemovedPct(Len(d), Len(fin.rows))
    IN [rows |-> fin.rows, caller |-> fin.caller, log |-> fin.log, err |-> pct.err]

(***************************************************************************)
(* Inputs of the cleaner                                                   *)
(***************************************************************************)
MaxLen == 2

\* "RR" has no entry in the table and falls back to the default record
MetricTypes == {"HR", "EDA", "TEMP", "PI", "RR"}

\* sample values around the bounds of each metric, in units
SampleUnits(m) ==
    CASE m = "HR"   -> {29, 30, 220, 221}
      [] m = "EDA"  -> {0 - 1, 0, 100, 101}
      [] m = "TEMP" -> {29, 30, 42, 43}
      [] OTHER      -> {0 - 1, 0, 50}

\* the non-finite samples fed to each metric (-inf only where no lower bound
\* or sign check shadows it)
NonFinite(m) == IF m \in {"HR", "EDA", "TEMP"} THEN {NaN, PInf} ELSE {NaN, PInf, NInf}

SampleValues(m) == {U(x) : x \in SampleUnits(m)} \cup NonFinite(m)

\* timestamps of an n-row series: ascending, descending, or tied in pairs
TimePatterns(n) ==
    { [i \in 1..n |-> i], [i \in 1..n |-> n + 1 - i], [i \in 1..n |-> (i + 1) \div 2] }

SeriesOf(ts, vs) == [i \in 1..Len(ts) |-> [t |-> ts[i], v |-> vs[i]]]

ShortSeries(m) ==
    UNION { { SeriesOf(ts, vs) : ts \in TimePatterns(n), vs \in [1..n -> SampleValues(m)] }
            : n \in 0..MaxLen }

\* longer series, long enough for the median filter to act
LongSeries(m) ==
    LET lo == CHOOSE x \in SampleUnits(m) : \A y \in SampleUnits(m) : x <= y
        hi == CHOOSE x \in SampleUnits(m) : \A y \in SampleUnits(m) : y <= x
        mid == CHOOSE x \in SampleUnits(m) : x # lo /\ x # hi
                   /\ \A y \in SampleUnits(m) \ {lo, hi} : x <= y
        n == SmoothWindow + 2
        ts == [i \in 1..n |-> i]
    IN { SeriesOf(ts, [i \in 1..n |-> U(mid)]),
         SeriesOf(ts, [i \in 1..n |-> IF i = 1 THEN U(hi) ELSE U(mid)]),
         SeriesOf(ts, [i \in 1..n |-> IF i = 4 THEN U(lo) ELSE U(mid)]),
         SeriesOf(ts, [i \in 1..n |-> IF i = 2 THEN NaN ELSE U(mid)]),
         SeriesOf(ts, [i \in 1..n |-> IF i = n THEN PInf ELSE U(mid)]) }

InputSeries(m) == ShortSeries(m) \cup LongSeries(m)

\* every assignment of the six flags, in the documented key order, and None
FullConfigs ==
    { StagesDict([i \in 1..6 |-> Item(FlagNames[i], f[i])]) : f \in [1..6 -> BOOLEAN] }

StageConfigs == FullConfigs \cup {NoStages}

\* no synchronisation in progress
SyncIdle ==
    /\ ev_cols = {}
    /\ ev_raw = <<>>
    /\ ev = <<>>
    /\ sensor = <<>>
    /\ offset = 0
    /\ tolerance = 0
    /\ matches = <<>>
    /\ warnings = <<>>
    /\ sync_error = "none"
    /\ sync_pc = "idle"

(***************************************************************************)
(* The cleaner as a state machine: construct, then one call of clean       *)
(***************************************************************************)
InitClean ==
    /\ metric_type \in MetricTypes
    /\ thresholds = GetThresholds(metric_type)
    /\ stages \in StageConfigs
    /\ data \in InputSeries(metric_type)
    /\ df = <<>>
    /\ stage_log = <<>>
    /\ raised = "none"
    /\ pc = "ready"
    /\ SyncIdle
    /\ RestIdle

Clean ==
    /\ pc = "ready"
    /\ \E r \in {CleanRun(data, stages, metric_type, thresholds)} :
          /\ data' = r.caller
          /\ df' = IF r.err = "none" THEN r.rows ELSE <<>>
          /\ stage_log' = r.log
          /\ raised' = r.err
    /\ pc' = "done"
    /\ UNCHANGED <<metric_type, thresholds, stages>>
    /\ UNCHANGED syncVars
    /\ UNCHANGED restVars

NextClean == Clean

SpecClean == InitClean /\ [][NextClean]_vars

(***************************************************************************)
(* The cleaner called with configurations whose keys come in any order     *)
(***************************************************************************)
KeyOrders ==
    { <<1, 2, 3, 4, 5, 6>>, <<6, 5, 4, 3, 2, 1>>, <<5, 6, 1, 2, 3, 4>>, <<2, 1, 4, 3, 6, 5>> }

\* dicts holding all six flags or only three of them, keys in several orders
PermutedConfigs ==
    { StagesDict(SubSeq([i \in 1..6 |-> Item(FlagNames[p[i]], f[p[i]])], 1, k)) :
        f \in [1..6 -> BOOLEAN], p \in KeyOrders, k \in {3, 6} }

OrderSeries(m) == LongSeries(m) \cup {s \in ShortSeries(m) : Len(s) <= 1}

InitOrder ==
    /\ metric_type \in {"HR", "RR"}
    /\ thresholds = GetThresholds(metric_type)
    /\ stages \in PermutedConfigs
    /\ data \in OrderSeries(metric_type)
    /\ df = <<>>
    /\ stage_log = <<>>
    /\ raised = "none"
    /\ pc = "ready"
    /\ SyncIdle
    /\ RestIdle

SpecOrder == InitOrder /\ [][NextClean]_vars

\* the same dict with its items listed in the documented key order
Canonical(arg) ==
    LET Present(it) == \E j \in 1..Len(arg.items) : arg.items[j].k = it.k
        all == [i \in 1..6 |-> Item(FlagNames[i], Get(arg.items, FlagNames[i], FALSE))]
    IN IF arg.is_none THEN arg ELSE StagesDict(SelectSeq(all, Present))

(***************************************************************************)
(* Properties of clean                                                     *)
(***************************************************************************)
Flag(key, dflt) == Get(EffectiveStages(stages), key, dflt)

Returned == pc = "done" /\ raised = "none"

\* C1: for a metric with both min and max (HR, EDA, TEMP), when
\* remove_physiological_outliers is enabled, whatever the other five flags
\* and the input, every value of the series clean returns lies in [min, max].
C1_ThresholdContainment ==
    (Returned /\ thresholds.min.set /\ thresholds.max.set
        /\ Flag("remove_physiological_outliers", TRUE))
    => \A i \in 1..Len(df) :
          FGe(df[i].v, thresholds.min.val) /\ FLe(df[i].v, thresholds.max.val)

\* C1 witness: stage 2 is the only filter of invalid values (stage 1 off), it
\* removed something, and the median filter then rewrote the column.
C1_Witness ==
    /\ Returned /\ thresholds.min.set /\ thresholds.max.set
    /\ Flag("remove_physiological_outliers", TRUE)
    /\ ~Flag("remove_invalid", TRUE)
    /\ Flag("smooth", FALSE)
    /\ Len(df) > SmoothWindow
    /\ Len(df) < Len(data)

\* C2: for every metric type and every combination of the six flags, every
\* value of the series clean returns is finite (not NaN, not +inf, not -inf).
C2_FiniteOutput ==
    Returned => \A i \in 1..Len(df) : IsFinite(df[i].v)

\* C3: every stage, and clean as a whole, returns at most as many rows as it
\* was given; interpolation fills in place and never inserts a row.
C3_MonotonicCount ==
    /\ \A i \in 1..Len(stage_log) : stage_log[i].after <= stage_log[i].before
    /\ Returned => Len(df) <= Len(data)

\* C3 witness: interpolation filled every missing value (no row lost) and
\* another stage ran as well.
C3_Witness ==
    /\ Returned
    /\ CountNaN(data) > 0
    /\ Flag("interpolate", TRUE)
    /\ Len(df) = Len(data)
    /\ Len(stage_log) >= 2

\* C4: the enabled stages run in the fixed order 1..6, and the result of
\* clean depends only on the value of each flag, not on the order in which
\* the configuration lists them.
C4_FixedStageOrder ==
    Returned =>
        /\ \A i, j \in 1..Len(stage_log) :
              i < j => stage_log[i].stage < stage_log[j].stage
        /\ df = CleanRun(data, Canonical(stages), metric_type, thresholds).rows

\* C4 witness: a configuration listed out of order, several stages ran and
\* rows were removed.
C4_Witness ==
    /\ Returned
    /\ stages # Canonical(stages)
    /\ Len(stage_log) >= 3
    /\ Len(df) < Len(data)

\* C5: clean never mutates its input: the caller's series and the cleaner's
\* threshold record are the same after the call as before it.
C5_InputNotMutated ==
    [][data' = data /\ thresholds' = thresholds]_vars

\* C5 witness: both in-place column writes happened (interpolation filled a
\* missing value, the median filter ran) and the result differs from the input.
C5_Witness ==
    /\ Returned
    /\ Flag("interpolate", TRUE) /\ Flag("smooth", FALSE)
    /\ CountNaN(data) > 0 /\ CountNaN(df) = 0
    /\ Len(df) > SmoothWindow
    /\ df # data

NullCell == [kind |-> "null", year |-> 0, sec |-> 0]

Num(x) == [kind |-> "num", year |-> 0, sec |-> x]

Iso(y, x) == [kind |-> "iso", year |-> y, sec |-> x]

BadText == [kind |-> "bad", year |-> 0, sec |-> 0]

SecondsPerYear == 365 * 86400

\* datetime.fromisoformat(...).timestamp(): seconds since 1970-01-01T00:00:00Z
ParseIso(c) == (c.year - 1970) * SecondsPerYear + c.sec

\* the float a numeric column holds in a row (NaN for a null cell)
CellNumber(c) == IF c.kind = "num" THEN c.sec ELSE NaN

\* a variant of the loop body without the try/except around the parsing
ConvertTimestampNoCatch(c) ==
    IF c.kind = "null" THEN [err |-> "none", val |-> NaN]
    ELSE IF c.kind = "iso" THEN [err |-> "none", val |-> ParseIso(c)]
    ELSE [err |-> "ValueError: invalid isoformat string", val |-> NaN]

\* one iteration of the conversion loop: None for a null or unparseable cell
ConvertTimestamp(c) ==
    IF c.kind = "null" THEN [err |-> "none", val |-> NaN]
    ELSE IF c.kind = "iso" THEN [err |-> "none", val |-> ParseIso(c)]
    ELSE [err |-> "none", val |-> NaN]

WithUnix(rows, unix) ==
    [i \in 1..Len(rows) |->
        [unix_timestamp |-> unix[i], event_marker |-> rows[i].event_marker]]

MissingColumnError == "ValueError: missing timestamp column"

NoValidTimestampsError == "ValueError: no valid timestamps"

PrepareEventMarkersTimestamps(cols, rows) ==
    LET n == Len(rows)
        nonnull == {i \in 1..n : rows[i].stamp.kind # "null"}
        sample == rows[CHOOSE i \in nonnull : \A j \in nonnull : i <= j].stamp
        copied == WithUnix(rows, [i \in 1..n |-> CellNumber(rows[i].stamp)])
        conv == [i \in 1..n |-> ConvertTimestamp(rows[i].stamp)]
        converted == WithUnix(rows, [i \in 1..n |-> conv[i].val])
        failed == {i \in 1..n : conv[i].err # "none"}
    IN IF "timestamp_unix" \in cols
       THEN LET a == Mask(copied, [i \in 1..n |-> ~IsNaN(copied[i].unix_timestamp)])
            IN [err |-> "none",
                rows |-> Mask(a, [i \in 1..Len(a) |-> FLt(0, a[i].unix_timestamp)])]
       ELSE IF "timestamp" \notin cols
       THEN [err |-> MissingColumnError, rows |-> <<>>]
       ELSE IF nonnull = {}
       THEN [err |-> NoValidTimestampsError, rows |-> <<>>]
       ELSE IF sample.kind = "num"
       THEN [err |-> "none", rows |-> copied]
       ELSE IF failed # {}
       THEN [err |-> conv[CHOOSE i \in failed : \A j \in failed : i <= j].err, rows |-> <<>>]
       ELSE [err |-> "none",
             rows |-> Mask(converted, [i \in 1..n |-> ~IsNaN(converted[i].unix_timestamp)])]

\* Series.min(): the smallest value, NaN values skipped, NaN when none is left
RECURSIVE SeriesMin(_)
SeriesMin(x) ==
    IF x = <<>> THEN NaN
    ELSE LET r == SeriesMin(Tail(x))
         IN IF IsNaN(Head(x)) THEN r
            ELSE IF IsNaN(r) THEN Head(x)
            ELSE IF Head(x) < r THEN Head(x) ELSE r

UnixTimestamps(events) == [i \in 1..Len(events) |-> events[i].unix_timestamp]

LocalTimestamps(rows) == [i \in 1..Len(rows) |-> rows[i].LocalTimestamp]

\* a variant that anchors on the first row of each stream
FindTimestampOffsetFirstRow(events, rows) ==
    IF events = <<>> \/ rows = <<>> \/ IsNaN(events[1].unix_timestamp)
    THEN [err |-> "ValueError: cannot convert float NaN to integer", val |-> NaN]
    ELSE [err |-> "none", val |-> events[1].unix_timestamp - rows[1].LocalTimestamp]

\* datetime.fromtimestamp raises on NaN, the minimum of an empty column
FindTimestampOffset(events, rows) ==
    LET event_marker_start == SeriesMin(UnixTimestamps(events))
        emotibit_start == SeriesMin(LocalTimestamps(rows))
    IN IF IsNaN(event_marker_start) \/ IsNaN(emotibit_start)
       THEN [err |-> "ValueError: cannot convert float NaN to integer", val |-> NaN]
       ELSE [err |-> "none", val |-> FSub(event_marker_start, emotibit_start)]

\* a variant with a strict comparison
WithinToleranceStrict(diff, tol) == FLt(diff, tol)

\* closest_time_diff <= tolerance
WithinTolerance(diff, tol) == FLe(diff, tol)

\* the loop body for one event row: a match, or a warning
MatchOne(e, rows, off, tol) ==
    LET time_diffs == [i \in 1..Len(rows) |->
            FAbs(FSub(FAdd(rows[i].LocalTimestamp, off), e.unix_timestamp))]
        closest_time_diff == SeriesMin(time_diffs)
        closest_idx == CHOOSE i \in 1..Len(rows) :
            /\ time_diffs[i] = closest_time_diff
            /\ \A j \in 1..(i - 1) : time_diffs[j] # closest_time_diff
    IN IF WithinTolerance(closest_time_diff, tol)
       THEN [matched |-> TRUE,
             rec |-> [event_marker |-> e.event_marker,
                      event_timestamp |-> e.unix_timestamp,
                      matched_timestamp |-> rows[closest_idx].LocalTimestamp,
                      adjusted_timestamp |-> FAdd(rows[closest_idx].LocalTimestamp, off),
                      time_diff |-> closest_time_diff,
                      biometric_value |-> rows[closest_idx].value,
                      row_index |-> closest_idx]]
       ELSE [matched |-> FALSE,
             rec |-> [event_marker |-> e.event_marker, event_timestamp |-> e.unix_timestamp]]

RECURSIVE MatchLoop(_, _, _, _, _)
MatchLoop(events, rows, off, tol, acc) ==
    IF events = <<>> THEN acc
    ELSE LET m == MatchOne(Head(events), rows, off, tol)
         IN MatchLoop(Tail(events), rows, off, tol,
                IF m.matched
                THEN [acc EXCEPT !.matches = Append(@, m.rec)]
                ELSE [acc EXCEPT !.warnings = Append(@, m.rec)])

\* idxmin of an empty column raises
MatchEventMarkersToBiometric(events, rows, off, tol) ==
    IF events # <<>> /\ rows = <<>>
    THEN [err |-> "ValueError: attempt to get argmin of an empty sequence",
          matches |-> <<>>, warnings |-> <<>>]
    ELSE MatchLoop(events, rows, off, tol,
                   [err |-> "none", matches |-> <<>>, warnings |-> <<>>])

(***************************************************************************)
(* Inputs of the synchronisation                                           *)
(***************************************************************************)
MaxEvents == 2

MaxSamples == 2

NumericCells == {NullCell, Num(0 - 3), Num(0), Num(5), Num(8)}

TextCells ==
    {NullCell, BadText, Iso(1969, SecondsPerYear - 3), Iso(1970, 0), Iso(1970, 5), Iso(1970, 8)}

MarkerAt(i) == IF i % 2 = 1 THEN "A" ELSE "B"

RawRows(cells) ==
    UNION { { [i \in 1..n |-> [stamp |-> c[i], event_marker |-> MarkerAt(i)]] :
                c \in [1..n -> cells] } : n \in 0..MaxEvents }

\* a column read from a file is numeric throughout or text throughout
EventFiles ==
    { [cols |-> {"timestamp_unix"}, rows |-> r] : r \in RawRows(NumericCells) }
    \cup { [cols |-> {"timestamp"}, rows |-> r] : r \in RawRows(NumericCells) \cup RawRows(TextCells) }
    \cup { [cols |-> {}, rows |-> [i \in 1..Len(r) |-> [r[i] EXCEPT !.stamp = NullCell]]] :
             r \in RawRows({NullCell}) }

SensorTimes == {100, 102, 103}

SensorFiles ==
    UNION { { [i \in 1..n |-> [LocalTimestamp |-> t[i], value |-> U(70 + i)]] :
                t \in [1..n -> SensorTimes] } : n \in 0..MaxSamples }

Tolerances == {0, 1, 2}

CleanIdle ==
    /\ metric_type = "HR"
    /\ thresholds = GetThresholds("HR")
    /\ stages = NoStages
    /\ data = <<>>
    /\ df = <<>>
    /\ stage_log = <<>>
    /\ raised = "none"
    /\ pc = "idle"

(***************************************************************************)
(* The synchronisation as a state machine (the order of app.py's test      *)
(* route): normalise the event log, compute the offset, match the events   *)
(***************************************************************************)
InitSync ==
    /\ CleanIdle
    /\ RestIdle
    /\ \E f \in EventFiles : ev_cols = f.cols /\ ev_raw = f.rows
    /\ sensor \in SensorFiles
    /\ ev = <<>>
    /\ offset = 0
    /\ tolerance = 0
    /\ matches = <<>>
    /\ warnings = <<>>
    /\ sync_error = "none"
    /\ sync_pc = "loaded"

Prepare ==
    /\ sync_pc = "loaded"
    /\ \E r \in {PrepareEventMarkersTimestamps(ev_cols, ev_raw)} :
          /\ ev' = r.rows
          /\ sync_error' = r.err
          /\ sync_pc' = IF r.err = "none" THEN "prepared" ELSE "prepare_raised"
    /\ UNCHANGED <<ev_cols, ev_raw, sensor, offset, tolerance, matches, warnings>>
    /\ UNCHANGED cleanVars
    /\ UNCHANGED restVars

FindOffset ==
    /\ sync_pc = "prepared"
    /\ \E r \in {FindTimestampOffset(ev, sensor)} :
          /\ offset' = IF r.err = "none" THEN r.val ELSE offset
          /\ sync_error' = r.err
          /\ sync_pc' = IF r.err = "none" THEN "aligned" ELSE "offset_raised"
    /\ UNCHANGED <<ev_cols, ev_raw, ev, sensor, tolerance, matches, warnings>>
    /\ UNCHANGED cleanVars
    /\ UNCHANGED restVars

Match ==
    /\ sync_pc = "aligned"
    /\ \E tol \in Tolerances :
       \E r \in {MatchEventMarkersToBiometric(ev, sensor, offset, tol)} :
          /\ tolerance' = tol
          /\ matches' = r.matches
          /\ warnings' = r.warnings
          /\ sync_error' = r.err
          /\ sync_pc' = IF r.err = "none" THEN "matched" ELSE "match_raised"
    /\ UNCHANGED <<ev_cols, ev_raw, ev, sensor, offset>>
    /\ UNCHANGED cleanVars
    /\ UNCHANGED restVars

NextSync == Prepare \/ FindOffset \/ Match

SpecSync == InitSync /\ [][NextSync]_vars

(***************************************************************************)
(* Properties of the synchronisation                                       *)
(***************************************************************************)
Aligned == sync_pc \in {"aligned", "matched"}

KnownTimes == {i \in 1..Len(ev) : ~IsNaN(ev[i].unix_timestamp)}

PrepareReturned == sync_pc \in {"prepared", "aligned", "matched", "offset_raised", "match_raised"}

PrepareRaised == sync_pc = "prepare_raised"

\* C8: for every accepted format (timestamp_unix, numeric timestamp, ISO
\* timestamp) every row returned by prepare_event_markers_timestamps has a
\* non-null unix_timestamp > 0.
C8_PositiveUnixTimestamps ==
    PrepareReturned => \A i \in 1..Len(ev) : FLt(0, ev[i].unix_timestamp)

AllNull == \A i \in 1..Len(ev_raw) : ev_raw[i].stamp.kind = "null"

AbsDiff(j, t) == FAbs(FSub(FAdd(sensor[j].LocalTimestamp, offset), t))

Near(e) == \E j \in 1..Len(sensor) : FLe(AbsDiff(j, e.unix_timestamp), tolerance)

Far(e) == ~Near(e)

Reported(recs) ==
    [i \in 1..Len(recs) |->
        [unix_timestamp |-> recs[i].event_timestamp, event_marker |-> recs[i].event_marker]]

\* C10: with a non-empty sensor stream, an event row is matched exactly when
\* some sample has |LocalTimestamp + offset - event time| <= tolerance, the
\* matched sample attains the minimum absolute difference, every other event
\* is reported, and matches plus reports number the event rows.
C10_MatchWithinTolerance ==
    (sync_pc = "matched" /\ sensor # <<>>) =>
        /\ Reported(matches) = SelectSeq(ev, Near)
        /\ Reported(warnings) = SelectSeq(ev, Far)
        /\ \A i \in 1..Len(matches) :
              LET m == matches[i]
              IN /\ m.row_index \in 1..Len(sensor)
                 /\ m.matched_timestamp = sensor[m.row_index].LocalTimestamp
                 /\ m.time_diff = AbsDiff(m.row_index, m.event_timestamp)
                 /\ \A j \in 1..Len(sensor) : m.time_diff <= AbsDiff(j, m.event_timestamp)
        /\ Len(matches) + Len(warnings) = Len(ev)

\* C10 witness: one event matched and another one reported as unmatched.
C10_Witness ==
    /\ sync_pc = "matched"
    /\ sensor # <<>>
    /\ Len(matches) >= 1
    /\ Len(warnings) >= 1

(***************************************************************************)
(* analysis_utils.py: extract_window_data.  A row of the event log is      *)
(* (unix_timestamp, event_marker, condition); a missing event_marker cell  *)
(* (NaN) is NullMarker.  A DataFrame is a set of columns and its rows;     *)
(* pd.DataFrame() has neither.                                             *)
(***************************************************************************)
NullMarker == "<NaN>"

SensorColumns == {"LocalTimestamp", "value"}

EmptyFrame == [err |-> "none", columns |-> {}, rows |-> <<>>]

\* emotibit_df['AdjustedTimestamp'] = emotibit_df['LocalTimestamp'] + offset
WithAdjustedTimestamp(rows, off) ==
    [i \in 1..Len(rows) |->
        [LocalTimestamp |-> rows[i].LocalTimestamp,
         value |-> rows[i].value,
         AdjustedTimestamp |-> FAdd(rows[i].LocalTimestamp, off)]]

\* the rows of the log selected by eventMarker and, when given and the log
\* has a condition column, by conditionMarker
MarkerRows(log, has_condition, cfg) ==
    LET by_event == Mask(log, [i \in 1..Len(log) |-> log[i].event_marker = cfg.eventMarker])
    IN IF cfg.conditionMarker # "" /\ has_condition
       THEN Mask(by_event,
                 [i \in 1..Len(by_event) |-> by_event[i].condition = cfg.conditionMarker])
       ELSE by_event

\* Series.max(): the largest value, NaN values skipped, NaN when none is left
RECURSIVE SeriesMax(_)
SeriesMax(x) ==
    IF x = <<>> THEN NaN
    ELSE LET r == SeriesMax(Tail(x))
         IN IF IsNaN(Head(x)) THEN r
            ELSE IF IsNaN(r) THEN Head(x)
            ELSE IF Head(x) > r THEN Head(x) ELSE r

\* rows of the log after marker_time whose event_marker is neither null nor ''
NextMarkers(log, marker_time) ==
    Mask(log, [i \in 1..Len(log) |->
        /\ FLt(marker_time, log[i].unix_timestamp)
        /\ log[i].event_marker # NullMarker
        /\ log[i].event_marker # ""])

\* end of a full window: next_markers.iloc[0], else the largest log timestamp
EndTime(log, marker_time) ==
    LET next_markers == NextMarkers(log, marker_time)
    IN IF Len(next_markers) > 0
       THEN next_markers[1].unix_timestamp
       ELSE SeriesMax(UnixTimestamps(log))

FullWindow(adj, marker_time, end_time) ==
    Mask(adj, [i \in 1..Len(adj) |->
        /\ FGe(adj[i].AdjustedTimestamp, marker_time)
        /\ FLt(adj[i].AdjustedTimestamp, end_time)])

\* a variant whose upper end is exclusive
CustomWindowHalfOpen(adj, marker_time, start_offset, end_offset) ==
    Mask(adj, [i \in 1..Len(adj) |->
        /\ FGe(adj[i].AdjustedTimestamp, FAdd(marker_time, start_offset))
        /\ FLt(adj[i].AdjustedTimestamp, FAdd(marker_time, end_offset))])

CustomWindow(adj, marker_time, start_offset, end_offset) ==
    Mask(adj, [i \in 1..Len(adj) |->
        /\ FGe(adj[i].AdjustedTimestamp, FAdd(marker_time, start_offset))
        /\ FLe(adj[i].AdjustedTimestamp, FAdd(marker_time, end_offset))])

\* one iteration of the loop over marker_rows
WindowOf(adj, log, cfg, marker_row) ==
    LET marker_time == marker_row.unix_timestamp
    IN IF cfg.timeWindowType = "full"
       THEN LET end_time == EndTime(log, marker_time)
            IN [marker_time |-> marker_time, lo |-> marker_time, hi |-> end_time,
                window_data |-> FullWindow(adj, marker_time, end_time)]
       ELSE [marker_time |-> marker_time,
             lo |-> FAdd(marker_time, cfg.customStart),
             hi |-> FAdd(marker_time, cfg.customEnd),
             window_data |-> CustomWindow(adj, marker_time, cfg.customStart, cfg.customEnd)]

\* a variant that visits the occurrences last to first
WindowLoopReversed(adj, log, cfg, marker_rows) ==
    [k \in 1..Len(marker_rows) |->
        WindowOf(adj, log, cfg, marker_rows[Len(marker_rows) + 1 - k])]

\* for idx, marker_row in marker_rows.iterrows()
WindowLoop(adj, log, cfg, marker_rows) ==
    [k \in 1..Len(marker_rows) |-> WindowOf(adj, log, cfg, marker_rows[k])]

\* all_data: the non-empty windows, in the order of the iterations
RECURSIVE AllData(_)
AllData(trace) ==
    IF trace = <<>> THEN <<>>
    ELSE IF Len(Head(trace).window_data) > 0
         THEN <<Head(trace).window_data>> \o AllData(Tail(trace))
         ELSE AllData(Tail(trace))

RECURSIVE Flatten(_)
Flatten(frames) == IF frames = <<>> THEN <<>> ELSE Head(frames) \o Flatten(Tail(frames))

\* pd.concat(all_data, ignore_index=True); raises on an empty list
Concat(all_data) ==
    IF all_data = <<>>
    THEN [err |-> "ValueError: No objects to concatenate", columns |-> {}, rows |-> <<>>]
    ELSE [err |-> "none",
          columns |-> SensorColumns \cup {"AdjustedTimestamp"},
          rows |-> Flatten(all_data)]

\* a variant without the check of an empty all_data
CombineWindowsUnguarded(all_data) == Concat(all_data)

CombineWindows(all_data) ==
    IF Len(all_data) = 0 THEN EmptyFrame ELSE Concat(all_data)

ExtractWindowData(emotibit_df, event_markers_df, has_condition, off, cfg) ==
    LET adj == WithAdjustedTimestamp(emotibit_df, off)
        marker_rows == MarkerRows(event_markers_df, has_condition, cfg)
        trace == WindowLoop(adj, event_markers_df, cfg, marker_rows)
    IN IF cfg.eventMarker = "all"
       THEN [trace |-> <<>>,
             result |-> [err |-> "none",
                         columns |-> SensorColumns \cup {"AdjustedTimestamp"},
                         rows |-> adj]]
       ELSE IF Len(marker_rows) = 0
       THEN [trace |-> <<>>, result |-> EmptyFrame]
       ELSE [trace |-> trace, result |-> CombineWindows(AllData(trace))]

(***************************************************************************)
(* Inputs of the window extraction: normalised event logs of up to MaxLog  *)
(* rows (chronological, reversed, with a swapped pair, with ties), sensor  *)
(* streams with their offset, window configurations                        *)
(***************************************************************************)
MaxLog == 3

\* the i-th instant of a recording: two seconds apart
EventTime(i) == 10 + 2 * (i - 1)

LogTimes(n) ==
    { [i \in 1..n |-> EventTime(i)],
      [i \in 1..n |-> EventTime(n + 1 - i)],
      [i \in 1..n |-> IF i = 1 THEN EventTime(1)
                      ELSE IF i % 2 = 0
                           THEN (IF i + 1 <= n THEN EventTime(i + 1) ELSE EventTime(i))
                           ELSE EventTime(i - 1)],
      [i \in 1..n |-> EventTime((i + 1) \div 2)] }

MarkerValues == {"A", "B", "", NullMarker}

ConditionAt(i) == IF i % 2 = 1 THEN "x" ELSE "y"

EventLogs ==
    UNION { { [i \in 1..n |->
                 [unix_timestamp |-> t[i], event_marker |-> m[i], condition |-> ConditionAt(i)]] :
              t \in LogTimes(n), m \in [1..n -> MarkerValues] } : n \in 0..MaxLog }

Stream(times) == [i \in 1..Len(times) |-> [LocalTimestamp |-> times[i], value |-> U(70 + i)]]

WindowSensors ==
    { [rows |-> Stream(<<0, 1, 2, 3, 4, 5, 6, 7>>), offset |-> EventTime(1) - 1],
      [rows |-> Stream(<<13, 10, 12, 11, 15, 14>>), offset |-> 0],
      [rows |-> Stream(<<1, 2>>), offset |-> 0],
      [rows |-> <<>>, offset |-> 0] }

WindowTypes ==
    { [timeWindowType |-> "full", customStart |-> 0, customEnd |-> 0],
      [timeWindowType |-> "custom", customStart |-> 0 - 2, customEnd |-> 0],
      [timeWindowType |-> "custom", customStart |-> 0, customEnd |-> 0],
      [timeWindowType |-> "custom", customStart |-> 1, customEnd |-> 3] }

WindowConfig(e, c, w) ==
    [eventMarker |-> e, conditionMarker |-> c, timeWindowType |-> w.timeWindowType,
     customStart |-> w.customStart, customEnd |-> w.customEnd]

WindowConfigs ==
    { WindowConfig("A", c, w) : c \in {"", "x"}, w \in WindowTypes }
    \cup { WindowConfig("C", "", w) : w \in WindowTypes }
    \cup { WindowConfig("all", "", w) : w \in {x \in WindowTypes : x.timeWindowType = "full"} }

(***************************************************************************)
(* The window extraction as a state machine: one call                      *)
(***************************************************************************)
InitWindow ==
    /\ CleanIdle
    /\ SyncIdle
    /\ MetricIdle
    /\ MethodIdle
    /\ RunIdle
    /\ win_log \in EventLogs
    /\ win_has_condition \in BOOLEAN
    /\ \E s \in WindowSensors : win_sensor = s.rows /\ win_offset = s.offset
    /\ window_config \in WindowConfigs
    /\ win_trace = <<>>
    /\ win_result = <<>>
    /\ win_pc = "ready"

Extract ==
    /\ win_pc = "ready"
    /\ \E r \in {ExtractWindowData(win_sensor, win_log, win_has_condition,
                                   win_offset, window_config)} :
          /\ win_trace' = r.trace
          /\ win_result' = r.result
    /\ win_pc' = "done"
    /\ UNCHANGED <<win_log, win_has_condition, win_sensor, win_offset, window_config>>
    /\ UNCHANGED <<cleanVars, syncVars, methodVars, runVars, amVars>>

NextWindow == Extract

SpecWindow == InitWindow /\ [][NextWindow]_vars

(***************************************************************************)
(* Properties of the window extraction                                     *)
(***************************************************************************)
Windowed == win_pc = "done" /\ window_config.eventMarker # "all"

\* indices of the matching occurrences in the event log
Occ ==
    {i \in 1..Len(win_log) :
        /\ win_log[i].event_marker = window_config.eventMarker
        /\ \/ window_config.conditionMarker = ""
           \/ ~win_has_condition
           \/ win_log[i].condition = window_config.conditionMarker}

\* index in the log of the k-th matching occurrence
OccIndex(k) == CHOOSE i \in Occ : Cardinality({j \in Occ : j < i}) = k - 1

\* non-empty markers later than t
Later(t) ==
    {j \in 1..Len(win_log) :
        /\ win_log[j].unix_timestamp > t
        /\ win_log[j].event_marker \notin {"", NullMarker}}

NextTime(t) ==
    CHOOSE u \in {win_log[j].unix_timestamp : j \in Later(t)} :
        \A j \in Later(t) : u <= win_log[j].unix_timestamp

AdjustedRow(i) ==
    [LocalTimestamp |-> win_sensor[i].LocalTimestamp,
     value |-> win_sensor[i].value,
     AdjustedTimestamp |-> win_sensor[i].LocalTimestamp + win_offset]

AdjustedSensor == [i \in 1..Len(win_sensor) |-> AdjustedRow(i)]

\* sensor rows with lo <= AdjustedTimestamp < hi, in source order
HalfOpenRange(lo, hi) ==
    LET In(r) == lo <= r.AdjustedTimestamp /\ r.AdjustedTimestamp < hi
    IN SelectSeq(AdjustedSensor, In)

\* sensor rows with lo <= AdjustedTimestamp <= hi, in source order
ClosedRange(lo, hi) ==
    LET In(r) == lo <= r.AdjustedTimestamp /\ r.AdjustedTimestamp <= hi
    IN SelectSeq(AdjustedSensor, In)

IsFull == window_config.timeWindowType = "full"

\* C11: for window type full, the sub-range of a matching occurrence at t0
\* that has a later non-empty marker is exactly the sensor rows with
\* t0 <= AdjustedTimestamp < t_next, t_next the smallest non-empty marker
\* timestamp greater than t0, whatever the order of the log's rows.
C11_FullWindowUntilNextMarker ==
    (Windowed /\ IsFull) =>
        \A k \in 1..Len(win_trace) :
            LET t0 == win_trace[k].marker_time
            IN Later(t0) # {} =>
                  win_trace[k].window_data = HalfOpenRange(t0, NextTime(t0))

\* C12: for window type full, a matching occurrence at t0 without a later
\* non-empty marker gets every sensor row with AdjustedTimestamp >= t0.
C12_FullWindowToEndOfRecording ==
    (Windowed /\ IsFull) =>
        \A k \in 1..Len(win_trace) :
            LET t0 == win_trace[k].marker_time
            IN Later(t0) = {} =>
                  \A i \in 1..Len(win_sensor) :
                      AdjustedRow(i).AdjustedTimestamp >= t0 =>
                          /\ \E p \in 1..Len(win_trace[k].window_data) :
                                win_trace[k].window_data[p] = AdjustedRow(i)
                          /\ \E p \in 1..Len(win_result.rows) :
                                win_result.rows[p] = AdjustedRow(i)

\* C13: for window type custom, the sub-range of every matching occurrence at
\* t0 is exactly the sensor rows with
\* t0 + customStart <= AdjustedTimestamp <= t0 + customEnd, both ends included.
C13_CustomWindowClosed ==
    (Windowed /\ ~IsFull) =>
        /\ Len(win_trace) = Cardinality(Occ)
        /\ \A k \in 1..Len(win_trace) :
              LET t0 == win_log[OccIndex(k)].unix_timestamp
              IN win_trace[k].window_data =
                    ClosedRange(t0 + window_config.customStart, t0 + window_config.customEnd)

\* C13 witness: a baseline window (negative customStart) with a sample at each end.
C13_Witness ==
    /\ Windowed /\ ~IsFull
    /\ window_config.customStart < 0
    /\ \E k \in 1..Len(win_trace) :
          LET w == win_trace[k].window_data
              t0 == win_trace[k].marker_time
          IN /\ Len(w) >= 3
             /\ \E p \in 1..Len(w) : w[p].AdjustedTimestamp = t0 + window_config.customStart
             /\ \E p \in 1..Len(w) : w[p].AdjustedTimestamp = t0 + window_config.customEnd

\* position in the result of the first row of the k-th sub-range, less one
RECURSIVE RowsBefore(_)
RowsBefore(k) ==
    IF k <= 1 THEN 0 ELSE RowsBefore(k - 1) + Len(win_trace[k - 1].window_data)

\* position of a result row in the sensor stream (values are distinct)
SourcePos(r) == CHOOSE i \in 1..Len(win_sensor) : win_sensor[i].value = r.value

\* C14: the result is the concatenation of one sub-range per matching
\* occurrence, in the order the event log yields the occurrences (t1, t2, t3
\* for a chronological log), and the rows of each sub-range keep the sensor
\* stream's source order.
C14_ConcatenationOrder ==
    Windowed =>
        /\ Len(win_trace) = Cardinality(Occ)
        /\ \A k \in 1..Len(win_trace) :
              /\ win_trace[k].marker_time = win_log[OccIndex(k)].unix_timestamp
              /\ \A p \in 1..Len(win_trace[k].window_data) :
                    /\ RowsBefore(k) + p <= Len(win_result.rows)
                    /\ win_result.rows[RowsBefore(k) + p] = win_trace[k].window_data[p]
              /\ \A p, q \in 1..Len(win_trace[k].window_data) :
                    p < q => SourcePos(win_trace[k].window_data[p])
                                < SourcePos(win_trace[k].window_data[q])
        /\ Len(win_result.rows) = RowsBefore(Len(win_trace) + 1)
        /\ (\A i, j \in Occ : i < j => win_log[i].unix_timestamp < win_log[j].unix_timestamp)
              => \A k \in 1..(Len(win_trace) - 1) :
                    win_trace[k].marker_time < win_trace[k + 1].marker_time

\* C14 witness: three occurrences t1 < t2 < t3 of a chronological log, each
\* with samples, extracted from a stream that is not in time order.
C14_Witness ==
    /\ Windowed
    /\ Len(win_trace) >= 3
    /\ \A k \in 1..Len(win_trace) : Len(win_trace[k].window_data) >= 1
    /\ \E k \in 1..Len(win_trace) : Len(win_trace[k].window_data) >= 3
    /\ \A k \in 1..(Len(win_trace) - 1) :
          win_trace[k].marker_time < win_trace[k + 1].marker_time
    /\ \E i \in 1..(Len(win_sensor) - 1) :
          win_sensor[i + 1].LocalTimestamp < win_sensor[i].LocalTimestamp

RECURSIVE Gcd(_, _)
Gcd(a, b) == IF b = 0 THEN a ELSE Gcd(b, a % b)

Abs(x) == IF x < 0 THEN 0 - x ELSE x

QNaN == [n |-> 0, d |-> 0]

Q(n, d) ==
    LET g == Gcd(Abs(n), Abs(d))
    IN IF d > 0 THEN [n |-> n \div g, d |-> d \div g]
       ELSE [n |-> (0 - n) \div g, d |-> (0 - d) \div g]

QInt(k) == [n |-> k, d |-> 1]

QIsNaN(x) == x.d = 0

QAdd(x, y) == IF QIsNaN(x) \/ QIsNaN(y) THEN QNaN ELSE Q(x.n * y.d + y.n * x.d, x.d * y.d)

QSub(x, y) == IF QIsNaN(x) \/ QIsNaN(y) THEN QNaN ELSE Q(x.n * y.d - y.n * x.d, x.d * y.d)

QMul(x, y) == IF QIsNaN(x) \/ QIsNaN(y) THEN QNaN ELSE Q(x.n * y.n, x.d * y.d)

\* x / y for y # 0; 0 / 0 and NaN operands give NaN
QDiv(x, y) ==
    IF QIsNaN(x) \/ QIsNaN(y) \/ y.n = 0 THEN QNaN ELSE Q(x.n * y.d, x.d * y.n)

QLess(x, y) == x.n * y.d < y.n * x.d

RECURSIVE QSum(_)
QSum(s) == IF s = <<>> THEN QInt(0) ELSE QAdd(Head(s), QSum(Tail(s)))

\* np.mean: sum / count, NaN (0/0) for an empty array, NaN if any value is NaN
NpMean(s) == QDiv(QSum(s), QInt(Len(s)))

Plain(q) == [rad |-> FALSE, q |-> q]

\* np.sqrt(q) for q >= 0 or NaN
Root(q) == [rad |-> TRUE, q |-> q]

RealIsNaN(r) == QIsNaN(r.q)

\* Series.dropna()
DropNaValues(s) ==
    LET Valid(x) == ~QIsNaN(x) IN SelectSeq(s, Valid)

\* Series.mean(): NaN values skipped, NaN when none is left
SeriesMean(s) == NpMean(DropNaValues(s))

\* the square of Series.std() (ddof = 1): NaN for fewer than two values
SeriesVariance(s) ==
    LET v == DropNaValues(s)
        m == NpMean(v)
        dev == [i \in 1..Len(v) |-> QMul(QSub(v[i], m), QSub(v[i], m))]
    IN IF Len(v) < 2 THEN QNaN ELSE QDiv(QSum(dev), QInt(Len(v) - 1))

SeriesStd(s) == Root(SeriesVariance(s))

RECURSIVE QMin(_)
QMin(s) ==
    IF Len(s) = 1 THEN Head(s)
    ELSE LET r == QMin(Tail(s)) IN IF QLess(Head(s), r) THEN Head(s) ELSE r

RECURSIVE QMax(_)
QMax(s) ==
    IF Len(s) = 1 THEN Head(s)
    ELSE LET r == QMax(Tail(s)) IN IF QLess(r, Head(s)) THEN Head(s) ELSE r

MetricValues(rows) == [i \in 1..Len(rows) |-> rows[i].value]

Timestamps(rows) == [i \in 1..Len(rows) |-> rows[i].AdjustedTimestamp]

\* result[metric_col] = column
WithMetric(rows, column) ==
    [i \in 1..Len(rows) |->
        [AdjustedTimestamp |-> rows[i].AdjustedTimestamp, value |-> column[i]]]

NoAttrs == [has_rmssd |-> FALSE, rmssd |-> Root(QNaN)]

\* what a method returns: the processed frame, its attrs, and the caller's
\* frame as the call leaves it
Frame(rows, attrs, caller) ==
    [err |-> "none", rows |-> rows, attrs |-> attrs, caller |-> caller]

\* return data.copy()
ApplyRaw(frame) == Frame(DataCopy(frame).rows, NoAttrs, frame)

\* a single row: the mean timestamp and the mean value
ApplyMean(frame) ==
    Frame(<<[AdjustedTimestamp |-> SeriesMean(Timestamps(frame)),
             value |-> SeriesMean(MetricValues(frame))]>>, NoAttrs, frame)

\* rolling(window, center=True, min_periods=1).mean(): the window of row i
\* covers rows i - window \div 2 .. i + (window - 1) \div 2
Rolling(values, window_size) ==
    [i \in 1..Len(values) |->
        LET lo == IF i - (window_size \div 2) < 1 THEN 1 ELSE i - (window_size \div 2)
            hi == IF i + ((window_size - 1) \div 2) > Len(values)
                  THEN Len(values) ELSE i + ((window_size - 1) \div 2)
        IN SeriesMean(SubSeq(values, lo, hi))]

DefaultWindowSize == 30

\* result = data.copy(), then the column of result is assigned in place
ApplyMovingAverage(frame, window_size) ==
    LET result == DataCopy(frame)
        smoothed == WithMetric(result.rows, Rolling(MetricValues(result.rows), window_size))
    IN Frame(smoothed, NoAttrs, IF result.shared THEN smoothed ELSE frame)

\* a variant that subtracts the later value from the earlier one
NpDiffBackward(values) ==
    [i \in 1..(IF Len(values) = 0 THEN 0 ELSE Len(values) - 1) |->
        QSub(values[i], values[i + 1])]

\* np.diff(values): values[i+1] - values[i]
NpDiff(values) ==
    [i \in 1..(IF Len(values) = 0 THEN 0 ELSE Len(values) - 1) |->
        QSub(values[i + 1], values[i])]

\* result.iloc[:-1]
DropLast(rows) == IF rows = <<>> THEN <<>> ELSE SubSeq(rows, 1, Len(rows) - 1)

ApplyRmssd(frame) ==
    LET result == DataCopy(frame)
        values == MetricValues(result.rows)
        successive_diffs == NpDiff(values)
        squared_diffs == [i \in 1..Len(successive_diffs) |->
                             QMul(successive_diffs[i], successive_diffs[i])]
        rmssd_value == Root(NpMean(squared_diffs))
        trimmed == DataCopy(DropLast(result.rows))
        differenced == WithMetric(trimmed.rows, successive_diffs)
    IN Frame(differenced, [has_rmssd |-> TRUE, rmssd |-> rmssd_value],
             IF trimmed.shared THEN differenced ELSE frame)

UnknownMethodError == "ValueError: Unknown analysis method"

\* a variant that falls back to the raw data for an unknown method
ApplyAnalysisMethodLenient(frame, method) ==
    IF method = "mean" THEN ApplyMean(frame)
    ELSE IF method = "moving_average" THEN ApplyMovingAverage(frame, DefaultWindowSize)
    ELSE IF method = "rmssd" THEN ApplyRmssd(frame)
    ELSE ApplyRaw(frame)

ApplyAnalysisMethod(frame, method) ==
    IF method = "raw" THEN ApplyRaw(frame)
    ELSE IF method = "mean" THEN ApplyMean(frame)
    ELSE IF method = "moving_average" THEN ApplyMovingAverage(frame, DefaultWindowSize)
    ELSE IF method = "rmssd" THEN ApplyRmssd(frame)
    ELSE [err |-> UnknownMethodError, rows |-> <<>>, attrs |-> NoAttrs, caller |-> frame]

\* the record returned for a column without any non-null value
ZeroStatistics ==
    [k \in {"mean", "std", "min", "max", "count"} |-> Plain(QInt(0))]

\* if np.isnan(x): x = 0.0
NanToZero(r) == IF RealIsNaN(r) THEN Plain(QInt(0)) ELSE r

BaseStatistics(values) ==
    [k \in {"mean", "std", "min", "max", "count"} |->
        IF k = "mean" THEN NanToZero(Plain(SeriesMean(values)))
        ELSE IF k = "std" THEN NanToZero(SeriesStd(values))
        ELSE IF k = "min" THEN NanToZero(Plain(QMin(values)))
        ELSE IF k = "max" THEN NanToZero(Plain(QMax(values)))
        ELSE Plain(QInt(Len(values)))]

\* stats[key] = val
WithKey(stats, key, val) ==
    [k \in DOMAIN stats \cup {key} |-> IF k = key THEN val ELSE stats[k]]

\* values.std() / values.mean() if values.mean() != 0 else 0
Smoothness(values) ==
    LET m == SeriesMean(values)
        var == SeriesVariance(values)
    IN IF m.n # 0
       THEN [rad |-> TRUE,
             q |-> IF m.n > 0 THEN QDiv(var, QMul(m, m))
                   ELSE QSub(QInt(0), QDiv(var, QMul(m, m)))]
       ELSE Plain(QInt(0))

CalculateStatistics(processed, method) ==
    LET values == DropNaValues(MetricValues(processed.rows))
        stats == BaseStatistics(values)
        with_rmssd == IF method = "rmssd" /\ processed.attrs.has_rmssd
                      THEN WithKey(stats, "rmssd", processed.attrs.rmssd)
                      ELSE stats
    IN IF Len(values) = 0 THEN ZeroStatistics
       ELSE IF method = "moving_average"
            THEN WithKey(with_rmssd, "smoothness", Smoothness(values))
            ELSE with_rmssd

(***************************************************************************)
(* Inputs of the analysis methods: windows of up to MaxWindow rows, the    *)
(* four method names and an unknown one                                    *)
(***************************************************************************)
MaxWindow == 4

WindowValues == {QInt(70), QInt(71), QInt(72), QInt(73), QInt(0 - 70), QNaN}

Windows ==
    UNION { { [i \in 1..n |-> [AdjustedTimestamp |-> QInt(EventTime(i)), value |-> v[i]]] :
              v \in [1..n -> WindowValues] } : n \in 0..MaxWindow }

KnownMethods == {"raw", "mean", "moving_average", "rmssd"}

MethodNames == KnownMethods \cup {"median"}

(***************************************************************************)
(* The analysis of one window as a state machine (analyze_metric):         *)
(* apply_analysis_method, then calculate_statistics on what it returned    *)
(***************************************************************************)
InitMethod ==
    /\ CleanIdle
    /\ SyncIdle
    /\ MetricIdle
    /\ WindowIdle
    /\ RunIdle
    /\ method_window \in Windows
    /\ method_name \in MethodNames
    /\ method_out = <<>>
    /\ method_stats = <<>>
    /\ method_pc = "ready"

Apply ==
    /\ method_pc = "ready"
    /\ \E r \in {ApplyAnalysisMethod(method_window, method_name)} :
          /\ method_out' = r
          /\ method_window' = r.caller
          /\ method_pc' = IF r.err = "none" THEN "applied" ELSE "apply_raised"
    /\ UNCHANGED <<method_name, method_stats>>
    /\ UNCHANGED <<cleanVars, syncVars, winVars, runVars, amVars>>

Statistics ==
    /\ method_pc = "applied"
    /\ method_stats' = CalculateStatistics(method_out, method_name)
    /\ method_pc' = "done"
    /\ UNCHANGED <<method_window, method_name, method_out>>
    /\ UNCHANGED <<cleanVars, syncVars, winVars, runVars, amVars>>

NextMethod == Apply \/ Statistics

SpecMethod == InitMethod /\ [][NextMethod]_vars

(***************************************************************************)
(* Properties of the analysis methods                                      *)
(***************************************************************************)
WindowInts == [i \in 1..Len(method_window) |-> method_window[i].value.n]

NoNaNInWindow == \A i \in 1..Len(method_window) : ~QIsNaN(method_window[i].value)

\* sum of the squared successive differences of the first k + 1 window values
RECURSIVE SumSquaredDiffs(_)
SumSquaredDiffs(k) ==
    IF k = 0 THEN 0
    ELSE SumSquaredDiffs(k - 1)
         + (WindowInts[k + 1] - WindowInts[k]) * (WindowInts[k + 1] - WindowInts[k])

\* C16: for a window of n >= 2 rows the successive-difference method returns
\* n - 1 rows, the i-th holding value[i+1] - value[i] ([2, -1, 2] for
\* [70, 72, 71, 73]), attaches a scalar RMSSD whose square is the mean of the
\* squared differences (3 for that input), and leaves the input window as it was.
C16_SuccessiveDifferences ==
    [][(method_pc = "ready" /\ method_name = "rmssd" /\ Len(method_window) >= 2) =>
          LET n == Len(method_window)
              out == method_out'
          IN /\ out.err = "none"
             /\ Len(out.rows) = n - 1
             /\ \A i \in 1..(n - 1) :
                   /\ out.rows[i].AdjustedTimestamp = method_window[i].AdjustedTimestamp
                   /\ IF QIsNaN(method_window[i].value) \/ QIsNaN(method_window[i + 1].value)
                      THEN QIsNaN(out.rows[i].value)
                      ELSE out.rows[i].value =
                              [n |-> WindowInts[i + 1] - WindowInts[i], d |-> 1]
             /\ out.attrs.has_rmssd
             /\ out.attrs.rmssd.rad
             /\ NoNaNInWindow =>
                   /\ out.attrs.rmssd.q.d > 0
                   /\ out.attrs.rmssd.q.n * (n - 1) = SumSquaredDiffs(n - 1) * out.attrs.rmssd.q.d
             /\ WindowInts = <<70, 72, 71, 73>> =>
                   /\ MetricValues(out.rows) = <<QInt(2), QInt(0 - 1), QInt(2)>>
                   /\ out.attrs.rmssd = Root(QInt(3))
             /\ method_window' = method_window]_vars

\* C16 witness: the successive differences of [70, 72, 71, 73] were taken.
C16_Witness ==
    /\ method_pc = "applied"
    /\ method_name = "rmssd"
    /\ NoNaNInWindow
    /\ WindowInts = <<70, 72, 71, 73>>
    /\ Len(method_out.rows) = 3

\* C17: for every method and every window no numeric field of the record
\* returned by calculate_statistics is NaN: mean, std, min, max, count and the
\* method-specific rmssd and smoothness.
C17_NoNaNStatistic ==
    method_pc = "done" => \A k \in DOMAIN method_stats : ~RealIsNaN(method_stats[k])

\* C18: the statistics of the successive-difference method always contain
\* rmssd, for every input window; those of the moving-average method always
\* contain smoothness, equal to std / mean, or 0 when the mean is exactly zero.
C18_MethodSpecificFields ==
    method_pc = "done" =>
        /\ method_name = "rmssd" => "rmssd" \in DOMAIN method_stats
        /\ method_name = "moving_average" =>
              /\ "smoothness" \in DOMAIN method_stats
              /\ LET v == DropNaValues(MetricValues(method_out.rows))
                     m == SeriesMean(v)
                 IN IF m.n = 0 /\ m.d # 0
                    THEN method_stats["smoothness"] = Plain(QInt(0))
                    ELSE /\ method_stats["smoothness"].rad
                         /\ QMul(method_stats["smoothness"].q, QMul(m, m))
                               = (IF m.n > 0 THEN SeriesVariance(v)
                                  ELSE QSub(QInt(0), SeriesVariance(v)))

\* C19: apply_analysis_method with a method name other than raw, mean,
\* moving_average and rmssd fails with an error and returns no data, for every
\* window; with one of the four names it does not fail on a non-empty window.
C19_UnknownMethodFails ==
    method_pc # "ready" =>
        /\ method_name \notin KnownMethods =>
              /\ method_pc = "apply_raised"
              /\ method_out.err = UnknownMethodError
              /\ method_out.rows = <<>>
              /\ method_stats = <<>>
        /\ (method_name \in KnownMethods /\ method_window # <<>>) =>
              /\ method_pc # "apply_raised"
              /\ method_out.err = "none"

\* C19 witness: an unknown method name was rejected on a non-empty window.
C19_Witness ==
    /\ method_pc = "apply_raised"
    /\ method_name = "median"
    /\ method_window # <<>>

(***************************************************************************)
(* analysis_runner.py: run_analysis, the loop over the selected metrics.   *)
(* The files of a run are described by what reading them leads to.         *)
(* Event-marker file of a subject: "ok"; "missing" (not in the manifest);  *)
(* "bad" (prepare_event_markers_timestamps raises); "empty" (no usable     *)
(* timestamp is left, find_timestamp_offset raises).  Metric file of a     *)
(* (subject, metric): "ok"; "no_file"; "unreadable" (pd.read_csv raises);  *)
(* "clean_empty" (no row survives the cleaning).                           *)
(***************************************************************************)
EventStates == {"ok", "missing", "bad", "empty"}

FileStates == {"ok", "no_file", "unreadable", "clean_empty"}

\* analyze_metric: "raise", "none" (returns None, []) or "results"
AnalyzeMetric(file, event) ==
    IF file = "unreadable" THEN "raise"
    ELSE IF file = "clean_empty" THEN "none"
    ELSE IF event = "empty" THEN "raise"
    ELSE "results"

\* one iteration of the subject loop of analyze_metric_multi_subject:
\* "skip" (continue), "raise", or "loaded" (windows added to group_data_raw)
LoadSubject(file, event) ==
    IF event = "missing" THEN "skip"
    ELSE IF file = "no_file" THEN "skip"
    ELSE IF file = "unreadable" THEN "raise"
    ELSE IF file = "clean_empty" THEN "skip"
    ELSE IF event = "bad" THEN "raise"
    ELSE IF event = "empty" THEN "raise"
    ELSE "loaded"

ErrorAnalyzing(metric) == <<"Error analyzing", metric>>

ErrorLoadingMarkers == <<"Error loading event markers">>

Metric == run_metrics[run_i]

Subject == run_subjects[run_j]

\* 1. LOADING EVENT MARKERS: per subject later in batch mode, now otherwise
LoadMarkers ==
    /\ run_pc = "start"
    /\ IF run_mode # "single"
       THEN run_markers' = "True" /\ UNCHANGED run_errors
       ELSE IF run_event[run_subjects[1]] \in {"missing", "bad"}
       THEN run_markers' = "None" /\ run_errors' = Append(run_errors, ErrorLoadingMarkers)
       ELSE run_markers' = "frame" /\ UNCHANGED run_errors
    /\ run_pc' = "hrv"
    /\ UNCHANGED <<run_mode, run_metrics, run_subjects, run_event, run_file,
                   run_results, run_i, run_j, run_group>>
    /\ UNCHANGED hrvVars
    /\ UNCHANGED <<cleanVars, syncVars, winVars, methodVars, amVars>>

HrvSkippedWarning == <<"HRV skipped">>

ErrorAnalyzingHrv == <<"Error analyzing HRV">>

\* `batch_mode and analysis_type == 'intra' and len(selected_subjects) > 1`
IntraMultiSubject == run_mode = "intra" /\ Len(run_subjects) > 1

\* analyze_hrv_from_ppg: "raise" without a PI file, else results and plots
AnalyzeHrvFromPpg(ppg) == IF ppg = "missing" THEN "raise" ELSE "indices"

\* 2. HRV: the heading, with the warning in intra-subject mode
HrvHeading ==
    /\ run_pc = "hrv"
    /\ IF run_hrv /\ run_markers # "None"
       THEN /\ run_warnings' = IF IntraMultiSubject
                               THEN Append(run_warnings, HrvSkippedWarning)
                               ELSE run_warnings
            /\ run_pc' = "hrv_try"
       ELSE /\ run_pc' = "metrics"
            /\ UNCHANGED run_warnings
    /\ UNCHANGED <<run_mode, run_metrics, run_subjects, run_event, run_file, run_markers,
                   run_results, run_errors, run_i, run_j, run_group>>
    /\ UNCHANGED <<run_hrv, run_ppg, run_hrv_results, run_plots, run_hrv_calls>>
    /\ UNCHANGED <<cleanVars, syncVars, winVars, methodVars, amVars>>

\* 2. HRV: the try block that follows the if/else of the heading
HrvAnalysis ==
    /\ run_pc = "hrv_try"
    /\ run_hrv_calls' = run_hrv_calls + 1
    /\ IF AnalyzeHrvFromPpg(run_ppg) = "raise"
       THEN /\ run_errors' = Append(run_errors, ErrorAnalyzingHrv)
            /\ UNCHANGED <<run_hrv_results, run_plots>>
       ELSE /\ run_hrv_results' = "indices"
            /\ run_plots' = Append(run_plots, "HRV")
            /\ UNCHANGED run_errors
    /\ run_pc' = "metrics"
    /\ UNCHANGED <<run_mode, run_metrics, run_subjects, run_event, run_file, run_markers,
                   run_results, run_i, run_j, run_group>>
    /\ UNCHANGED <<run_hrv, run_ppg, run_warnings>>
    /\ UNCHANGED <<cleanVars, syncVars, winVars, methodVars, amVars>>

InMetricLoop ==
    /\ run_pc = "metrics"
    /\ run_markers # "None"
    /\ run_i <= Len(run_metrics)

\* single subject mode: one iteration of the metric loop
SingleMetric ==
    /\ InMetricLoop
    /\ run_mode = "single"
    /\ LET file == run_file[<<run_subjects[1], Metric>>]
           outcome == AnalyzeMetric(file, run_event[run_subjects[1]])
       IN IF file \in {"no_file", "unreadable"}
          THEN UNCHANGED <<run_results, run_errors>>
          ELSE IF outcome = "raise"
          THEN /\ run_errors' = Append(run_errors, ErrorAnalyzing(Metric))
               /\ UNCHANGED run_results
          ELSE IF outcome = "results"
          THEN /\ run_results' = run_results \cup {<<Metric, run_subjects[1]>>}
               /\ UNCHANGED run_errors
          ELSE UNCHANGED <<run_results, run_errors>>
    /\ run_i' = run_i + 1
    /\ UNCHANGED <<run_mode, run_metrics, run_subjects, run_event, run_file,
                   run_markers, run_j, run_group, run_pc>>
    /\ UNCHANGED hrvVars
    /\ UNCHANGED <<cleanVars, syncVars, winVars, methodVars, amVars>>

\* inter-subject mode: one iteration of the subject loop; an exception
\* outside the inner try ends the iteration of the metric loop
InterSubject ==
    /\ InMetricLoop
    /\ run_mode = "inter"
    /\ run_j <= Len(run_subjects)
    /\ LET event == run_event[Subject]
           file == run_file[<<Subject, Metric>>]
           outcome == AnalyzeMetric(file, event)
       IN IF event = "missing"
          THEN run_j' = run_j + 1 /\ UNCHANGED <<run_results, run_errors, run_i>>
          ELSE IF event = "bad"
          THEN /\ run_errors' = Append(run_errors, ErrorAnalyzing(Metric))
               /\ run_i' = run_i + 1
               /\ run_j' = 1
               /\ UNCHANGED run_results
          ELSE IF file = "no_file"
          THEN run_j' = run_j + 1 /\ UNCHANGED <<run_results, run_errors, run_i>>
          ELSE IF outcome = "results"
          THEN /\ run_results' = run_results \cup {<<Metric, Subject>>}
               /\ run_j' = run_j + 1
               /\ UNCHANGED <<run_errors, run_i>>
          ELSE run_j' = run_j + 1 /\ UNCHANGED <<run_results, run_errors, run_i>>
    /\ UNCHANGED <<run_mode, run_metrics, run_subjects, run_event, run_file,
                   run_markers, run_group, run_pc>>
    /\ UNCHANGED hrvVars
    /\ UNCHANGED <<cleanVars, syncVars, winVars, methodVars, amVars>>

\* inter-subject mode: the subject loop is exhausted
InterNextMetric ==
    /\ InMetricLoop
    /\ run_mode = "inter"
    /\ run_j > Len(run_subjects)
    /\ run_i' = run_i + 1
    /\ run_j' = 1
    /\ UNCHANGED <<run_mode, run_metrics, run_subjects, run_event, run_file,
                   run_markers, run_results, run_errors, run_group, run_pc>>
    /\ UNCHANGED hrvVars
    /\ UNCHANGED <<cleanVars, syncVars, winVars, methodVars, amVars>>

\* intra-subject mode: one iteration of the subject loop of
\* analyze_metric_multi_subject; an exception leaves the function
IntraSubject ==
    /\ InMetricLoop
    /\ run_mode = "intra"
    /\ run_j <= Len(run_subjects)
    /\ LET step == LoadSubject(run_file[<<Subject, Metric>>], run_event[Subject])
       IN IF step = "raise"
          THEN /\ run_errors' = Append(run_errors, ErrorAnalyzing(Metric))
               /\ run_group' = {}
               /\ run_i' = run_i + 1
               /\ run_j' = 1
          ELSE /\ run_group' = IF step = "loaded" THEN run_group \cup {Subject} ELSE run_group
               /\ run_j' = run_j + 1
               /\ UNCHANGED <<run_errors, run_i>>
    /\ UNCHANGED <<run_mode, run_metrics, run_subjects, run_event, run_file,
                   run_markers, run_results, run_pc>>
    /\ UNCHANGED hrvVars
    /\ UNCHANGED <<cleanVars, syncVars, winVars, methodVars, amVars>>

\* intra-subject mode: the rest of analyze_metric_multi_subject and the
\* storing of its results
IntraFinish ==
    /\ InMetricLoop
    /\ run_mode = "intra"
    /\ run_j > Len(run_subjects)
    /\ run_results' = run_results \cup {<<Metric, sub>> : sub \in run_group}
    /\ run_group' = {}
    /\ run_i' = run_i + 1
    /\ run_j' = 1
    /\ UNCHANGED <<run_mode, run_metrics, run_subjects, run_event, run_file,
                   run_markers, run_errors, run_pc>>
    /\ UNCHANGED hrvVars
    /\ UNCHANGED <<cleanVars, syncVars, winVars, methodVars, amVars>>

\* 5. FINALIZING RESULTS
Finalize ==
    /\ run_pc = "metrics"
    /\ run_markers = "None" \/ run_i > Len(run_metrics)
    /\ run_pc' = "done"
    /\ UNCHANGED <<run_mode, run_metrics, run_subjects, run_event, run_file,
                   run_markers, run_results, run_errors, run_i, run_j, run_group>>
    /\ UNCHANGED hrvVars
    /\ UNCHANGED <<cleanVars, syncVars, winVars, methodVars, amVars>>

(***************************************************************************)
(* Inputs of a run: up to MaxSubjects subjects, one or two metrics, and    *)
(* at most MaxFaults files that are not "ok"                               *)
(***************************************************************************)
MaxSubjects == 2

MaxFaults == 2

SubjectName(j) == <<"subject", j>>

SubjectLists == { [j \in 1..n |-> SubjectName(j)] : n \in 1..MaxSubjects }

MetricLists == { <<"HR">>, <<"HR", "EDA">>, <<"EDA", "HR">> }

Range(f) == {f[x] : x \in DOMAIN f}

Faults(events, files) ==
    Cardinality({x \in DOMAIN events : events[x] # "ok"})
    + Cardinality({x \in DOMAIN files : files[x] # "ok"})

InitRun ==
    /\ CleanIdle
    /\ SyncIdle
    /\ MetricIdle
    /\ WindowIdle
    /\ MethodIdle
    /\ run_mode \in {"single", "inter", "intra"}
    /\ run_metrics \in MetricLists
    /\ run_subjects \in SubjectLists
    /\ run_mode = "single" => Len(run_subjects) = 1
    /\ run_event \in [Range(run_subjects) -> EventStates]
    /\ run_file \in [Range(run_subjects) \X Range(run_metrics) -> FileStates]
    /\ Faults(run_event, run_file) <= MaxFaults
    /\ run_markers = "None"
    /\ run_results = {}
    /\ run_errors = <<>>
    /\ run_i = 1
    /\ run_j = 1
    /\ run_group = {}
    /\ run_pc = "start"
    /\ run_hrv \in BOOLEAN
    /\ run_ppg \in (IF run_hrv THEN {"ok", "missing"} ELSE {"ok"})
    /\ run_warnings = <<>>
    /\ run_hrv_results = "empty"
    /\ run_plots = <<>>
    /\ run_hrv_calls = 0

NextRun ==
    \/ LoadMarkers
    \/ HrvHeading
    \/ HrvAnalysis
    \/ SingleMetric
    \/ InterSubject
    \/ InterNextMetric
    \/ IntraSubject
    \/ IntraFinish
    \/ Finalize

SpecRun == InitRun /\ [][NextRun]_vars

(***************************************************************************)
(* Properties of a run                                                     *)
(***************************************************************************)
Units == Range(run_subjects) \X Range(run_metrics)

\* a unit of work whose own files are in order
Healthy(u) == run_event[u[1]] = "ok" /\ run_file[u] = "ok"

\* C20: a failure in one (subject, metric) unit of work never prevents another
\* selected unit from being processed and from having its results in the
\* analysis results, in single-subject, inter-subject and intra-subject mode.
C20_FailureIsolation ==
    run_pc = "done" =>
        \A u \in Units : Healthy(u) => <<u[2], u[1]>> \in run_results

\* the call that asks for HRV in intra-subject mode with several subjects
HrvSkipCase == run_hrv /\ IntraMultiSubject

HrvSkipped == \E i \in 1..Len(run_warnings) : run_warnings[i] = HrvSkippedWarning

HrvError == \E i \in 1..Len(run_errors) : run_errors[i] = ErrorAnalyzingHrv

HrvPlot == \E i \in 1..Len(run_plots) : run_plots[i] = "HRV"

\* C28: when HRV analysis is requested in batch mode with analysis_type
\* 'intra' and more than one subject, the run records the 'HRV skipped'
\* warning, and in every state from then on the HRV analysis has not been
\* invoked: results['hrv'] is empty, no HRV plot was added and no HRV error
\* was recorded.
C28_SkippedHrvNeverRuns ==
    /\ (HrvSkipCase /\ run_pc = "done") => HrvSkipped
    /\ HrvSkipped =>
          (run_hrv_calls = 0 /\ run_hrv_results = "empty" /\ ~HrvPlot /\ ~HrvError)

(***************************************************************************)
(* The cleaner on series chosen for single stages: a configuration that    *)
(* enables one stage only makes clean return what that stage returns, and  *)
(* clean can be called again on what it returned.                          *)
(***************************************************************************)
\* the dict that enables stage k and disables the five others
OnlyStage(k) == StagesDict([i \in 1..6 |-> Item(FlagNames[i], i = k)])

\* the dict `cfg` with one flag set to b
WithFlag(arg, key, b) ==
    LET cfg == EffectiveStages(arg)
    IN StagesDict([i \in 1..Len(cfg) |-> IF cfg[i].k = key THEN Item(key, b) ELSE cfg[i]])

Ascending(n) == [i \in 1..n |-> i]

UnitSeries(ts, us) == SeriesOf(ts, [i \in 1..Len(us) |-> U(us[i])])

\* stage 3: the series of the documentation, constant series with one
\* outlier (MAD = 0), constant series (MAD = 0, std = 0), and short series
StatExample == <<70, 72, 71, 73, 150, 72, 71>>

OneOutlier(n, at) == [i \in 1..n |-> IF i = at THEN 150 ELSE 70]

\* lengths of the constant series: short ones, and the longest two
MaxConst == 13

StatLengths == (1..(MaxLen + 1)) \cup {MaxConst - 1, MaxConst}

Stage3Series ==
    { UnitSeries(Ascending(Len(us)), us) :
        us \in {StatExample}
               \cup { OneOutlier(n, at) : n \in StatLengths, at \in {0, 1} }
               \cup UNION { [1..n -> {70, 71, 75, 150}] : n \in 0..(MaxLen + 1) } }

\* stage 4: heart rates that differ by 30 (the limit per second), by a
\* little more and by much more, one to five seconds apart or tied
MaxChain == 3

ChangeTimes(n) == TimePatterns(n) \cup { [i \in 1..n |-> i * i] }

Stage4Series ==
    UNION { { UnitSeries(ts, us) : ts \in ChangeTimes(n), us \in [1..n -> {70, 100, 101, 150}] }
            : n \in 0..MaxChain }

\* stage 5: a run of k missing values between two samples, before the
\* first sample, or after the last one
MaxGap == 12

InteriorGap(a, b, k) ==
    SeriesOf(Ascending(k + 2), <<U(a)>> \o [i \in 1..k |-> NaN] \o <<U(b)>>)

LeadingGap(a, b, k) ==
    SeriesOf(Ascending(k + 2), [i \in 1..k |-> NaN] \o <<U(a), U(b)>>)

TrailingGap(a, b, k) ==
    SeriesOf(Ascending(k + 2), <<U(a), U(b)>> \o [i \in 1..k |-> NaN])

Stage5Series ==
    UNION { { InteriorGap(a, b, k), LeadingGap(a, b, k), TrailingGap(a, b, k) } :
            a \in {70, 100}, b \in {70, 100}, k \in 0..MaxGap }

\* stage 6: series shorter than the window, as long, and one longer
Stage6Series ==
    UNION { { UnitSeries(Ascending(n), us) : us \in [1..n -> {70, 100, 150}] }
            : n \in 0..(SmoothWindow + 1) }

StageInputs ==
    { [m |-> "HR", cfg |-> OnlyStage(3), d |-> s] : s \in Stage3Series }
    \cup UNION { { [m |-> mt, cfg |-> c, d |-> s] : c \in {OnlyStage(1), NoStages}, s \in ShortSeries(mt) }
                : mt \in MetricTypes }
    \cup { [m |-> "HR", cfg |-> OnlyStage(6), d |-> s] : s \in Stage6Series }
    \cup { [m |-> "HR", cfg |-> OnlyStage(5), d |-> s] : s \in Stage5Series }
    \cup { [m |-> "HR", cfg |-> c, d |-> s] : c \in {OnlyStage(4), NoStages}, s \in Stage4Series }

InitStage ==
    /\ \E inp \in StageInputs :
          /\ metric_type = inp.m
          /\ stages = inp.cfg
          /\ data = inp.d
    /\ thresholds = GetThresholds(metric_type)
    /\ df = <<>>
    /\ stage_log = <<>>
    /\ raised = "none"
    /\ pc = "ready"
    /\ SyncIdle
    /\ RestIdle

\* clean called on the frame the first call returned
CleanAgain ==
    /\ pc = "done"
    /\ raised = "none"
    /\ \E r \in {CleanRun(df, stages, metric_type, thresholds)} :
          /\ data' = r.caller
          /\ df' = IF r.err = "none" THEN r.rows ELSE <<>>
          /\ stage_log' = r.log
          /\ raised' = r.err
    /\ pc' = "again"
    /\ UNCHANGED <<metric_type, thresholds, stages>>
    /\ UNCHANGED syncVars
    /\ UNCHANGED restVars

NextStage == Clean \/ CleanAgain

SpecStage == InitStage /\ [][NextStage]_vars

Only(k) == pc = "done" /\ raised = "none" /\ stages = OnlyStage(k)

\* the values of the input in whole units
DataUnits == [i \in 1..Len(data) |-> ToUnits(data[i].v)]

\* twice the median of a sequence of finite numbers
MedianTwice(x) == Median2(SortNums(x))

\* twice the distance of x[i] from the median
Dev2(x, i) == FAbs(2 * x[i] - MedianTwice(x))

\* four times the median absolute deviation
Mad4(x) == MedianTwice([i \in 1..Len(x) |-> Dev2(x, i)])

\* score(x[i]) < 3.5, the score being |0.6745 * (x - median) / MAD| when
\* MAD # 0 and |x - median| / std when MAD = 0 and std > 0; with MAD = 0 and
\* std = 0 there is no score and nothing is removed
ScoreBelowThreshold(x, i) ==
    LET n == Len(x)
    IN IF Mad4(x) # 0
       THEN 4 * MadFactor * Dev2(x, i) < ZThreshold2 * MadFactorDen * Mad4(x)
       ELSE IF SumSqDev(x) > 0
       THEN Dev2(x, i) * Dev2(x, i) * n * (n - 1) < ZThreshold2 * ZThreshold2 * SumSqDev(x)
       ELSE TRUE

\* C21: stage 3 retains exactly the samples whose score is below 3.5 (the
\* modified z-score when MAD # 0, the ordinary z-score about the median when
\* MAD = 0 and std > 0, nothing removed when both are 0); of the series
\* 70, 72, 71, 73, 150, 72, 71 exactly the value 150 is removed.
C21_StatisticalOutliers ==
    Only(3) =>
        /\ df = Mask(data, [i \in 1..Len(data) |-> ScoreBelowThreshold(DataUnits, i)])
        /\ DataUnits = StatExample =>
              Vals(df) = [i \in 1..6 |-> U(<<70, 72, 71, 73, 72, 71>>[i])]

\* C21 witness: the fallback on the standard deviation removed the outlier
\* of an otherwise constant series (MAD = 0, std > 0).
C21_Witness ==
    /\ Only(3)
    /\ Len(data) > 0
    /\ Mad4(DataUnits) = 0
    /\ SumSqDev(DataUnits) > 0
    /\ Len(df) = Len(data) - 1

\* the scan of the sorted rows that compares each row with the last row it
\* retained
RECURSIVE RetainedScan(_, _, _)
RetainedScan(s, last, max_change) ==
    IF s = <<>> THEN <<>>
    ELSE LET r == Head(s)
             dt == r.t - last.t
             dv == FAbs(FSub(r.v, last.v))
         IN IF dt > 0 /\ dv > max_change * dt
            THEN RetainedScan(Tail(s), last, max_change)
            ELSE <<r>> \o RetainedScan(Tail(s), r, max_change)

RetainedAgainstPrevious(rows, max_change) ==
    LET s == SortValues(rows)
    IN IF s = <<>> THEN <<>> ELSE <<s[1]>> \o RetainedScan(Tail(s), s[1], max_change)

\* C22: stage 4 sorts by timestamp, keeps the first sample, and drops a later
\* sample exactly when its rate of change against the previous retained
\* sample exceeds max_change; a pair with delta t = 0 never causes a drop.
C22_RateAgainstRetained ==
    Only(4) => df = RetainedAgainstPrevious(data, thresholds.max_change.val)

\* the rate between rows i and i+1 of the output is within max_change
WithinMaxChange(i) ==
    LET dt == df[i + 1].t - df[i].t
        dv == FAbs(FSub(df[i + 1].v, df[i].v))
    IN dt > 0 => dv <= thresholds.max_change.val * dt

\* C23: with max_change defined and remove_sudden_changes enabled, no two
\* consecutive samples of the output of clean that are apart in time change
\* faster than max_change.
C23_NoSuddenChangeInOutput ==
    (pc = "done" /\ raised = "none" /\ thresholds.max_change.set
        /\ Flag("remove_sudden_changes", TRUE))
    => \A i \in 1..(Len(df) - 1) : WithinMaxChange(i)

\* the input is k missing values between two samples / before two samples /
\* after two samples
IsInteriorGap(k) ==
    /\ Len(data) = k + 2
    /\ \A i \in 1..(k + 2) : IsNaN(data[i].v) <=> (1 < i /\ i < k + 2)

IsLeadingGap(k) ==
    /\ Len(data) = k + 2
    /\ \A i \in 1..(k + 2) : IsNaN(data[i].v) <=> i <= k

IsTrailingGap(k) ==
    /\ Len(data) = k + 2
    /\ \A i \in 1..(k + 2) : IsNaN(data[i].v) <=> i > 2

\* the value on the straight line from a (at position 1) to b (at position
\* k + 2), at position i; the scale of the values makes it exact up to k = 11
OnTheLine(a, b, k, i) == a + ((b - a) * (i - 1)) \div (k + 1)

\* C24: of a run of k missing values between two valid samples, stage 5
\* fills all k by linear interpolation between the neighbours and drops no
\* row when k <= 10; when k >= 11 at least one value stays unresolved and
\* its row is dropped, so the output has fewer rows than the input.
C24_InteriorGapLimit ==
    \A k \in 1..MaxGap :
        (Only(5) /\ IsInteriorGap(k)) =>
            IF k <= InterpolateLimit
            THEN df = [i \in 1..(k + 2) |->
                         [t |-> data[i].t,
                          v |-> OnTheLine(data[1].v, data[k + 2].v, k, i)]]
            ELSE Len(df) < Len(data)

Least(a, b) == IF a <= b THEN a ELSE b

\* C25: of a leading or a trailing run of k missing values, stage 5 fills at
\* most 5 (those nearest to the first or last valid sample), each with that
\* nearest valid value, and drops the remaining k - 5 rows when k > 5; the
\* bound is the same for leading and for trailing runs.
C25_EdgeGapLimit ==
    \A k \in 1..MaxGap :
        /\ (Only(5) /\ IsLeadingGap(k)) =>
              df = [i \in 1..(Least(k, FillLimit) + 2) |->
                      LET j == i + k - Least(k, FillLimit)
                      IN [t |-> data[j].t,
                          v |-> IF j <= k THEN data[k + 1].v ELSE data[j].v]]
        /\ (Only(5) /\ IsTrailingGap(k)) =>
              df = [i \in 1..(Least(k, FillLimit) + 2) |->
                      [t |-> data[i].t,
                       v |-> IF i > 2 THEN data[2].v ELSE data[i].v]]

\* the rows that reach stage 5: the input after stages 1 to 4
BeforeStage5 ==
    RunStages(<<1, 2, 3, 4>>,
              [rows |-> data, shared |-> FALSE, caller |-> data, log |-> <<>>],
              EffectiveStages(stages), metric_type, thresholds).rows

TimesOf(rows) == {rows[i].t : i \in 1..Len(rows)}

DistinctTimes(rows) == Cardinality(TimesOf(rows)) = Len(rows)

\* timestamps of the samples stages 1 to 4 removed from between two samples
\* they retained
RemovedInside ==
    { t \in TimesOf(data) \ TimesOf(BeforeStage5) :
        \E a, b \in TimesOf(BeforeStage5) : a < t /\ t < b }

\* the retained rows next to timestamp t
RetainedBefore(t) ==
    CHOOSE r \in Range(BeforeStage5) :
        r.t < t /\ \A q \in Range(BeforeStage5) : q.t < t => q.t <= r.t

RetainedAfter(t) ==
    CHOOSE r \in Range(BeforeStage5) :
        r.t > t /\ \A q \in Range(BeforeStage5) : q.t > t => q.t >= r.t

\* the value at time t on the straight line between the retained neighbours
Interpolated(t) ==
    LET a == RetainedBefore(t)
        b == RetainedAfter(t)
    IN a.v + ((b.v - a.v) * (t - a.t)) \div (b.t - a.t)

\* what clean returns for the same input with interpolate disabled
WithoutInterpolation ==
    CleanRun(data, WithFlag(stages, "interpolate", FALSE), metric_type, thresholds).rows

\* C26: with interpolate enabled, a sample that stages 1 to 4 remove from
\* between two retained samples comes back in the output of clean as a row
\* at its timestamp holding the linearly interpolated value, so the output
\* differs from the output with interpolate disabled.
C26_GapsOfEarlierStagesFilled ==
    (pc = "done" /\ raised = "none" /\ Flag("interpolate", TRUE)
        /\ DistinctTimes(data) /\ RemovedInside # {})
    => /\ \A t \in RemovedInside :
             \E i \in 1..Len(df) : df[i].t = t /\ df[i].v = Interpolated(t)
       /\ df # WithoutInterpolation

\* C27: stage 6 applies the centered median filter of window 5 to every
\* series of at least 5 samples and leaves alone only a series of fewer than
\* 5 samples; the row count and the timestamps do not change.
C27_SmoothingFromWindowLength ==
    Only(6) =>
        /\ Len(data) >= SmoothWindow => Vals(df) = MedFilt(Vals(data))
        /\ Len(data) < SmoothWindow => Vals(df) = Vals(data)
        /\ Len(df) = Len(data)
        /\ \A i \in 1..Len(df) : df[i].t = data[i].t

\* no NaN, no infinite value and, for the metrics that must not be negative,
\* no negative value
AllValid(rows, m) ==
    \A i \in 1..Len(rows) :
        IsFinite(rows[i].v) /\ (m \in NonNegativeMetrics => rows[i].v >= 0)

\* C30: under the default configuration clean returns its own output
\* unchanged when it is called on it, for every metric type and input; and
\* stage 1 returns a series without NaN, infinite or (for the metrics that
\* must not be negative) negative values unchanged.
C30_CleanIdempotent ==
    /\ (pc = "again" /\ raised = "none" /\ stages = NoStages) => df = data
    /\ (Only(1) /\ AllValid(data, metric_type)) => df = data

(***************************************************************************)
(* analysis_runner.py: analyze_metric from the reading of the metric file  *)
(* to the clock offset                                                     *)
(***************************************************************************)
\* the frame of the metric file as find_timestamp_offset reads it
AsSensor(rows) == [i \in 1..Len(rows) |-> [LocalTimestamp |-> rows[i].t, value |-> rows[i].v]]

\* `if cleaning_enabled: df_metric = cleaner.clean(df_metric, metric_col,
\* timestamp_col='LocalTimestamp', stages=cleaning_stages)`
CleanedIfEnabled(rows, enabled, arg, metric) ==
    IF enabled THEN CleanRun(rows, arg, metric, GetThresholds(metric)).rows ELSE rows

\* analyze_metric up to `offset = find_timestamp_offset(df_markers, df_metric)`
MetricOffset(rows, markers, enabled, arg, metric) ==
    LET df_metric == CleanedIfEnabled(rows, enabled, arg, metric)
        found == FindTimestampOffset(markers, AsSensor(df_metric))
    IN IF Len(df_metric) = 0 THEN [pc |-> "none", df_metric |-> df_metric, offset |-> 0]
       ELSE IF found.err # "none" THEN [pc |-> "raised", df_metric |-> df_metric, offset |-> 0]
       ELSE [pc |-> "offset", df_metric |-> df_metric, offset |-> found.val]

MetricFiles ==
    UNION { { SeriesOf(ts, vs) : ts \in [1..n -> SensorTimes], vs \in [1..n -> {U(29), U(70), NaN}] }
            : n \in 0..MaxSamples }

MarkerFrames ==
    UNION { { [i \in 1..n |-> [unix_timestamp |-> c[i], event_marker |-> MarkerAt(i)]] :
                c \in [1..n -> {5, 8}] } : n \in 1..MaxEvents }

CleaningStages == {NoStages, OnlyStage(1), OnlyStage(2)}

InitMetric ==
    /\ CleanIdle
    /\ SyncIdle
    /\ WindowIdle
    /\ MethodIdle
    /\ RunIdle
    /\ am_metric = "HR"
    /\ am_file \in MetricFiles
    /\ am_markers \in MarkerFrames
    /\ am_cleaning_enabled \in BOOLEAN
    /\ am_cleaning_stages \in (IF am_cleaning_enabled THEN CleaningStages ELSE {NoStages})
    /\ am_df_metric = <<>>
    /\ am_offset = 0
    /\ am_pc = "call"

AnalyzeMetricOffset ==
    /\ am_pc = "call"
    /\ \E r \in {MetricOffset(am_file, am_markers, am_cleaning_enabled,
                              am_cleaning_stages, am_metric)} :
          /\ am_df_metric' = r.df_metric
          /\ am_offset' = r.offset
          /\ am_pc' = r.pc
    /\ UNCHANGED <<am_metric, am_file, am_markers, am_cleaning_enabled, am_cleaning_stages>>
    /\ UNCHANGED <<cleanVars, syncVars, winVars, methodVars, runVars>>

NextMetric == AnalyzeMetricOffset

SpecMetric == InitMetric /\ [][NextMetric]_vars

\* min(event unix_timestamp) - min(LocalTimestamp of the stream as loaded)
OffsetOfLoadedStream ==
    SeriesMin(UnixTimestamps(am_markers)) - SeriesMin(LocalTimestamps(AsSensor(am_file)))

\* C29: the offset analyze_metric applies does not depend on the cleaning
\* configuration: with cleaning enabled (any stage flags) or disabled it is
\* min(event unix_timestamp) - min(LocalTimestamp of the stream as loaded),
\* so a sample gets the same AdjustedTimestamp in both runs.
C29_OffsetIndependentOfCleaning ==
    am_pc = "offset" => am_offset = OffsetOfLoadedStream

====
